---- MODULE Spec2Model ----
(***************************************************************************)
(* chat-service: the visibility store (messages, chats, chat_visibility,   *)
(* group messages), the REST handlers that drive it, and the websocket     *)
(* hub that fans events out to the connections of a room.                  *)
(*                                                                         *)
(* Spec     the REST handlers over the store, one request at a time (no    *)
(*          websocket is attached, so a broadcast only records its call).  *)
(* SpecHub  the hub under concurrency: request goroutines that persist and *)
(*          then broadcast, websocket sessions and their read loops.       *)
(***************************************************************************)
EXTENDS Integers, Sequences, FiniteSets, TLC

(* ------------------------------ bounds -------------------------------- *)

\* rows the messages and group_messages tables may hold together
MaxRows == 2
\* NOW() values an INSERT may observe under concurrent inserts: 0 .. MaxTime
MaxTime == 1

(* ------------------------------ inputs -------------------------------- *)

\* user ids the authorization authority resolves tokens to
Users == {1, 2, 3}

\* the start-chat requests that are issued: caller, friend_id and the user
\* directory's answer to AreFriends
StartRequests ==
    {<<1, 2, TRUE>>, <<2, 1, TRUE>>, <<1, 3, TRUE>>, <<1, 1, TRUE>>, <<1, 2, FALSE>>}

\* chat ids named in request paths
ChatIDs == {1, 2}

\* the chat that messages are posted to, that is listed and that is hidden; the
\* other chat is the foreign room of cross-room references
PostChatIDs == {1}

\* message ids named in request paths
MessageIDs == 1 .. MaxRows
\* the message id the delete requests name: the first row of a table (missing
\* while the table is empty); later rows are the bystanders of the request
TargetIDs == {1}

\* the groups created before the checked requests: group id -> member rows
GroupMembers == <<{1, 2}, {2, 3}>>
\* their owners: the callers of the two POST /groups requests
GroupOwners == <<1, 2>>

GroupIDs == {1, 2}

PostGroupIDs == {1}

Times == 0 .. MaxTime

\* HTTP statuses the handlers answer with
StatusOK == 200
StatusCreated == 201
StatusNoContent == 204
StatusBadRequest == 400
StatusUnauthorized == 401
StatusForbidden == 403
StatusNotFound == 404
StatusInternalServerError == 500

VARIABLES
    chats,            \* table chats: sequence of rows, id = index (SERIAL)
    chatVisibility,   \* table chat_visibility: (chat_id, user_id) -> hidden
    messages,         \* table messages: sequence of rows, id = index
    groupMessages,    \* table group_messages: sequence of rows, id = index
    groups,           \* table groups: set of rows [id, owner_id]
    members,          \* table group_members: set of <<group_id, user_id>>
    groupSeq,         \* groups_id_seq: the last id the SERIAL column handed out
    published,        \* the Broadcast* calls made so far: set of events
    resp,             \* the last response written by a REST handler
    hub,              \* the Hub struct: chatRooms, groupRooms, chatConnInfo, groupConnInfo
    sock,             \* the websocket connections: conn -> socket, session and frames written
    thr,              \* the request goroutines: thread -> position and locals
    wsEvents,         \* the ws lifecycle events published so far
    wsActive,         \* gauge chat_ws_active_connections: kind -> value
    fatal             \* the runtime stopped the process (fatal error)

groupTables == <<groups, members, groupSeq>>
storeVars == <<chats, chatVisibility, messages, groupMessages, groupTables>>
hubVars == <<hub, sock, thr, wsEvents, wsActive, fatal>>
vars == <<chats, chatVisibility, messages, groupMessages, groups, members, groupSeq,
          published, resp, hub, sock, thr, wsEvents, wsActive, fatal>>

(* --------------------------- repositories ----------------------------- *)

\* ChatRepo.GetChat: the id of the row, 0 for ErrChatNotFound
GetChat(chatID) == IF chatID \in DOMAIN chats THEN chatID ELSE 0

isChatParticipant(chatID, userID) ==
    chats[chatID].user1_id = userID \/ chats[chatID].user2_id = userID

\* ChatRepo.IsParticipant: SELECT EXISTS(... WHERE id=$1 AND (user1_id=$2 OR user2_id=$2))
IsParticipant(chatID, userID) ==
    \E id \in DOMAIN chats :
        id = chatID /\ (chats[id].user1_id = userID \/ chats[id].user2_id = userID)

\* INSERT ... ON CONFLICT (chat_id, user_id) DO UPDATE SET hidden = h
UpsertVisibility(vis, chatID, userID, h) ==
    [p \in (DOMAIN vis) \cup {<<chatID, userID>>} |->
        IF p = <<chatID, userID>> THEN h ELSE vis[p]]

\* a hide that sets the flag of the chat for both participants
HideChatForUser_WholeChat(vis, chatID, userID) ==
    UpsertVisibility(
        UpsertVisibility(UpsertVisibility(vis, chatID, userID, TRUE),
                         chatID, chats[chatID].user1_id, TRUE),
        chatID, chats[chatID].user2_id, TRUE)

HideChatForUser(vis, chatID, userID) == UpsertVisibility(vis, chatID, userID, TRUE)

UnhideChatForUser(vis, chatID, userID) == UpsertVisibility(vis, chatID, userID, FALSE)

\* sort.Ints(participants)
SortPair(a, b) == IF a <= b THEN <<a, b>> ELSE <<b, a>>

\* the row CreateOrGetChat selects, 0 for sql.ErrNoRows
SelectChat(user1, user2) ==
    IF \E id \in DOMAIN chats : chats[id].user1_id = user1 /\ chats[id].user2_id = user2
    THEN CHOOSE id \in DOMAIN chats :
            chats[id].user1_id = user1 /\ chats[id].user2_id = user2
    ELSE 0

\* MessageRepo.CreateChatMessage: the table after the INSERT (flags take the
\* column defaults FALSE, created_at the default NOW())
CreateChatMessage(msgs, chatID, senderID, now) ==
    Append(msgs, [id |-> Len(msgs) + 1, chat_id |-> chatID, sender_id |-> senderID,
                  deleted_by_sender |-> FALSE, deleted_by_receiver |-> FALSE,
                  deleted_for_all |-> FALSE, created_at |-> now])

\* the WHERE clause with the two one-sided flags on the wrong sides
SelectedForUser_SidesSwapped(msgs, chatID, userID) ==
    {i \in DOMAIN msgs :
        /\ msgs[i].chat_id = chatID
        /\ msgs[i].deleted_for_all = FALSE
        /\ ~(msgs[i].sender_id = userID /\ msgs[i].deleted_by_receiver = TRUE)
        /\ ~(msgs[i].sender_id # userID /\ msgs[i].deleted_by_sender = TRUE)}

\* the WHERE clause with deleted_for_all tested only inside the sender's case
SelectedForUser_ForAllOnlyForSender(msgs, chatID, userID) ==
    {i \in DOMAIN msgs :
        /\ msgs[i].chat_id = chatID
        /\ ~(msgs[i].sender_id = userID
                /\ (msgs[i].deleted_by_sender = TRUE \/ msgs[i].deleted_for_all = TRUE))
        /\ ~(msgs[i].sender_id # userID /\ msgs[i].deleted_by_receiver = TRUE)}

\* the WHERE clause of GetChatMessagesForUser
SelectedForUser(msgs, chatID, userID) ==
    {i \in DOMAIN msgs :
        /\ msgs[i].chat_id = chatID
        /\ msgs[i].deleted_for_all = FALSE
        /\ ~(msgs[i].sender_id = userID /\ msgs[i].deleted_by_sender = TRUE)
        /\ ~(msgs[i].sender_id # userID /\ msgs[i].deleted_by_receiver = TRUE)}

\* ORDER BY created_at ASC: every arrangement of the selected rows that is
\* ascending in created_at (the order of rows with equal created_at is the
\* database's choice)
OrderByCreatedAt(msgs, ids) ==
    {s \in [1 .. Cardinality(ids) -> ids] :
        /\ \A i, j \in DOMAIN s : i # j => s[i] # s[j]
        /\ \A i, j \in DOMAIN s : i < j => msgs[s[i]].created_at <= msgs[s[j]].created_at}

\* MessageRepo.GetChatMessagesForUser: the result sets the query may return
GetChatMessagesForUser(msgs, chatID, userID) ==
    {[k \in DOMAIN s |-> msgs[s[k]]] :
        s \in OrderByCreatedAt(msgs, SelectedForUser(msgs, chatID, userID))}

\* MessageRepo.GetMessage: the id of the row, 0 for ErrMessageNotFound
GetMessage(messageID) == IF messageID \in DOMAIN messages THEN messageID ELSE 0

\* a soft delete that writes the whole row back from a fresh struct, so the
\* other two flags fall back to FALSE
SoftDeleteMessageForUser_Overwrite(msgs, messageID, isSender) ==
    [i \in DOMAIN msgs |->
        IF i # messageID THEN msgs[i]
        ELSE [msgs[i] EXCEPT !.deleted_by_sender = isSender,
                             !.deleted_by_receiver = ~isSender,
                             !.deleted_for_all = FALSE]]

\* a soft delete that always sets the sender's flag, whoever the caller is
SoftDeleteMessageForUser_AlwaysSender(msgs, messageID, isSender) ==
    [i \in DOMAIN msgs |->
        IF i # messageID THEN msgs[i]
        ELSE [msgs[i] EXCEPT !.deleted_by_sender = TRUE]]

\* MessageRepo.SoftDeleteMessageForUser: UPDATE ... WHERE id=$1
SoftDeleteMessageForUser(msgs, messageID, isSender) ==
    [i \in DOMAIN msgs |->
        IF i # messageID THEN msgs[i]
        ELSE IF isSender THEN [msgs[i] EXCEPT !.deleted_by_sender = TRUE]
        ELSE [msgs[i] EXCEPT !.deleted_by_receiver = TRUE]]

\* rows matched by UPDATE ... WHERE id=$1 AND sender_id=$2
RowsAffected(msgs, messageID, userID) ==
    {i \in DOMAIN msgs : i = messageID /\ msgs[i].sender_id = userID}

\* an UPDATE that reports its row as affected and leaves the flag unwritten
DeleteMessageForAllRows_NotWritten(msgs, messageID, userID) == msgs

\* an UPDATE that flips the flag of its row: SET deleted_for_all = NOT deleted_for_all
DeleteMessageForAllRows_Flips(msgs, messageID, userID) ==
    [i \in DOMAIN msgs |->
        IF i = messageID /\ msgs[i].sender_id = userID
        THEN [msgs[i] EXCEPT !.deleted_for_all = ~msgs[i].deleted_for_all]
        ELSE msgs[i]]

\* MessageRepo.DeleteMessageForAll / GroupMessageRepo.DeleteForAll: the table
\* after UPDATE ... SET deleted_for_all = TRUE WHERE id=$1 AND sender_id=$2
DeleteMessageForAllRows(msgs, messageID, userID) ==
    [i \in DOMAIN msgs |->
        IF i \in RowsAffected(msgs, messageID, userID)
        THEN [msgs[i] EXCEPT !.deleted_for_all = TRUE]
        ELSE msgs[i]]

(* ------------------------------ events -------------------------------- *)

\* models.ChatEvent / models.GroupEvent as marshalled by the hub
MessageEvent(kind, room, id) ==
    [kind |-> kind, room |-> room, type |-> "message", id |-> id]

DeletionEvent(kind, room, id) ==
    [kind |-> kind, room |-> room, type |-> "delete_for_all", id |-> id]

Respond(op, status, body) == resp' = [op |-> op, status |-> status, body |-> body]

(* ------------------------- REST handlers (chat) ----------------------- *)

\* ChatRepo.CreateOrGetChat: <<chats', chat_visibility', chat id>>; the id is 0
\* for the "cannot create chat with self" error
CreateOrGetChat(userID, friendID) ==
    LET p == SortPair(userID, friendID)
        found == SelectChat(p[1], p[2])
        id == IF found # 0 THEN found ELSE Len(chats) + 1
    IN  IF userID = friendID
        THEN <<chats, chatVisibility, 0>>
        ELSE <<IF found # 0 THEN chats
               ELSE Append(chats, [user1_id |-> p[1], user2_id |-> p[2]]),
               UnhideChatForUser(UnhideChatForUser(chatVisibility, id, userID),
                                 id, friendID),
               id>>

\* ChatHandler.StartChat; friends is the user directory's AreFriends answer
StartChat(userID, friendID, friends) ==
    IF ~friends
    THEN Respond("start", StatusForbidden, <<>>) /\ UNCHANGED <<storeVars, published>>
    ELSE IF userID = friendID
    THEN Respond("start", StatusBadRequest, <<>>) /\ UNCHANGED <<storeVars, published>>
    ELSE LET r == CreateOrGetChat(userID, friendID)
         IN  /\ chats' = r[1]
             /\ chatVisibility' = r[2]
             /\ Respond("start", StatusOK, <<r[3]>>)
             /\ UNCHANGED <<groupTables, messages, groupMessages, published>>

\* ChatHandler.GetChatMessages
GetChatMessages(userID, chatID) ==
    /\ UNCHANGED <<storeVars, published>>
    /\ IF ~IsParticipant(chatID, userID)
       THEN Respond("list", StatusForbidden, <<>>)
       ELSE \E rows \in GetChatMessagesForUser(messages, chatID, userID) :
                Respond("list", StatusOK, rows)

\* ChatHandler.PostChatMessage; now is the NOW() the INSERT observes
PostChatMessage(userID, chatID, now) ==
    IF GetChat(chatID) = 0
    THEN Respond("post", StatusNotFound, <<>>) /\ UNCHANGED <<storeVars, published>>
    ELSE IF ~isChatParticipant(chatID, userID)
    THEN Respond("post", StatusForbidden, <<>>) /\ UNCHANGED <<storeVars, published>>
    ELSE /\ Len(messages) + Len(groupMessages) < MaxRows
         /\ messages' = CreateChatMessage(messages, chatID, userID, now)
         /\ chatVisibility' =
                UnhideChatForUser(
                    UnhideChatForUser(chatVisibility, chatID, chats[chatID].user1_id),
                    chatID, chats[chatID].user2_id)
         /\ published' = published \cup {MessageEvent("chat", chatID, Len(messages) + 1)}
         /\ Respond("post", StatusCreated, <<messages'[Len(messages) + 1]>>)
         /\ UNCHANGED <<groupTables, chats, groupMessages>>

\* a delete-for-me that does not compare the chat of the message with the
\* chat of the request
DeleteMessageForMe_NoRoomCheck(userID, chatID, messageID) ==
    IF GetChat(chatID) = 0
    THEN Respond("deleteForMe", StatusNotFound, <<>>) /\ UNCHANGED <<storeVars, published>>
    ELSE IF ~isChatParticipant(chatID, userID)
    THEN Respond("deleteForMe", StatusForbidden, <<>>) /\ UNCHANGED <<storeVars, published>>
    ELSE IF GetMessage(messageID) = 0
    THEN Respond("deleteForMe", StatusNotFound, <<>>) /\ UNCHANGED <<storeVars, published>>
    ELSE /\ messages' = SoftDeleteMessageForUser(messages, messageID,
                                                 messages[messageID].sender_id = userID)
         /\ Respond("deleteForMe", StatusNoContent, <<>>)
         /\ UNCHANGED <<groupTables, chats, chatVisibility, groupMessages, published>>

\* ChatHandler.DeleteMessageForMe
DeleteMessageForMe(userID, chatID, messageID) ==
    IF GetChat(chatID) = 0
    THEN Respond("deleteForMe", StatusNotFound, <<>>) /\ UNCHANGED <<storeVars, published>>
    ELSE IF ~isChatParticipant(chatID, userID)
    THEN Respond("deleteForMe", StatusForbidden, <<>>) /\ UNCHANGED <<storeVars, published>>
    ELSE IF GetMessage(messageID) = 0
    THEN Respond("deleteForMe", StatusNotFound, <<>>) /\ UNCHANGED <<storeVars, published>>
    ELSE IF messages[messageID].chat_id # chatID
    THEN Respond("deleteForMe", StatusBadRequest, <<>>) /\ UNCHANGED <<storeVars, published>>
    ELSE LET isSender == messages[messageID].sender_id = userID
         IN  IF ~isSender /\ ~isChatParticipant(chatID, userID)
             THEN /\ Respond("deleteForMe", StatusForbidden, <<>>)
                  /\ UNCHANGED <<storeVars, published>>
             ELSE /\ messages' = SoftDeleteMessageForUser(messages, messageID, isSender)
                  /\ Respond("deleteForMe", StatusNoContent, <<>>)
                  /\ UNCHANGED <<groupTables, chats, chatVisibility, groupMessages, published>>

\* the handler without its own sender check, leaving it to the UPDATE
DeleteMessageForAllStatus_NoSenderCheck(userID, chatID, messageID) ==
    IF GetChat(chatID) = 0 THEN StatusNotFound
    ELSE IF ~isChatParticipant(chatID, userID) THEN StatusForbidden
    ELSE IF GetMessage(messageID) = 0 THEN StatusNotFound
    ELSE IF messages[messageID].chat_id # chatID THEN StatusBadRequest
    ELSE IF RowsAffected(messages, messageID, userID) = {} THEN StatusNotFound
    ELSE StatusNoContent

\* the handler with its sender check before its room check
DeleteMessageForAllStatus_SenderBeforeRoom(userID, chatID, messageID) ==
    IF GetChat(chatID) = 0 THEN StatusNotFound
    ELSE IF ~isChatParticipant(chatID, userID) THEN StatusForbidden
    ELSE IF GetMessage(messageID) = 0 THEN StatusNotFound
    ELSE IF messages[messageID].sender_id # userID THEN StatusForbidden
    ELSE IF messages[messageID].chat_id # chatID THEN StatusBadRequest
    ELSE IF RowsAffected(messages, messageID, userID) = {} THEN StatusNotFound
    ELSE StatusNoContent

\* the status ChatHandler.DeleteMessageForAll answers with
DeleteMessageForAllStatus(userID, chatID, messageID) ==
    IF GetChat(chatID) = 0 THEN StatusNotFound
    ELSE IF ~isChatParticipant(chatID, userID) THEN StatusForbidden
    ELSE IF GetMessage(messageID) = 0 THEN StatusNotFound
    ELSE IF messages[messageID].chat_id # chatID THEN StatusBadRequest
    ELSE IF messages[messageID].sender_id # userID THEN StatusForbidden
    ELSE IF RowsAffected(messages, messageID, userID) = {} THEN StatusNotFound
    ELSE StatusNoContent

\* ChatHandler.DeleteMessageForAll
DeleteMessageForAll(userID, chatID, messageID) ==
    LET status == DeleteMessageForAllStatus(userID, chatID, messageID)
    IN  IF status # StatusNoContent
        THEN Respond("deleteForAll", status, <<>>) /\ UNCHANGED <<storeVars, published>>
        ELSE /\ messages' = DeleteMessageForAllRows(messages, messageID, userID)
             /\ published' = published \cup {DeletionEvent("chat", chatID, messageID)}
             /\ Respond("deleteForAll", status, <<>>)
             /\ UNCHANGED <<groupTables, chats, chatVisibility, groupMessages>>

\* a hide handler without its participant check
DeleteChatForMe_NoParticipantCheck(userID, chatID) ==
    IF GetChat(chatID) = 0
    THEN Respond("hide", StatusNotFound, <<>>) /\ UNCHANGED <<storeVars, published>>
    ELSE /\ chatVisibility' = HideChatForUser(chatVisibility, chatID, userID)
         /\ Respond("hide", StatusNoContent, <<>>)
         /\ UNCHANGED <<groupTables, chats, messages, groupMessages, published>>

\* ChatHandler.DeleteChatForMe
DeleteChatForMe(userID, chatID) ==
    IF GetChat(chatID) = 0
    THEN Respond("hide", StatusNotFound, <<>>) /\ UNCHANGED <<storeVars, published>>
    ELSE IF ~isChatParticipant(chatID, userID)
    THEN Respond("hide", StatusForbidden, <<>>) /\ UNCHANGED <<storeVars, published>>
    ELSE /\ chatVisibility' = HideChatForUser(chatVisibility, chatID, userID)
         /\ Respond("hide", StatusNoContent, <<>>)
         /\ UNCHANGED <<groupTables, chats, messages, groupMessages, published>>

(* ------------------------ REST handlers (group) ----------------------- *)

\* GroupRepo.IsMember
IsMember(groupID, userID) ==
    \E row \in members : row[1] = groupID /\ row[2] = userID

\* GroupMessageRepo.CreateGroupMessage
CreateGroupMessage(msgs, groupID, senderID, now) ==
    Append(msgs, [id |-> Len(msgs) + 1, group_id |-> groupID, sender_id |-> senderID,
                  deleted_for_all |-> FALSE, created_at |-> now])

\* GroupMessageRepo.GetGroupMessage: the id of the row, 0 for ErrMessageNotFound
GetGroupMessage(messageID) == IF messageID \in DOMAIN groupMessages THEN messageID ELSE 0

\* ListGroupMessages without the deleted_for_all condition of its WHERE clause
ListGroupMessages_IncludesDeleted(msgs, groupID) ==
    {[k \in DOMAIN s |-> msgs[s[k]]] :
        s \in OrderByCreatedAt(msgs, {i \in DOMAIN msgs : msgs[i].group_id = groupID})}

\* GroupMessageRepo.ListGroupMessages: the result sets the query may return
ListGroupMessages(msgs, groupID) ==
    {[k \in DOMAIN s |-> msgs[s[k]]] :
        s \in OrderByCreatedAt(msgs,
                {i \in DOMAIN msgs :
                    msgs[i].group_id = groupID /\ msgs[i].deleted_for_all = FALSE})}

\* GroupHandler.GetGroupMessages
GetGroupMessages(userID, groupID) ==
    /\ UNCHANGED <<storeVars, published>>
    /\ IF ~IsMember(groupID, userID)
       THEN Respond("groupList", StatusForbidden, <<>>)
       ELSE \E rows \in ListGroupMessages(groupMessages, groupID) :
                Respond("groupList", StatusOK, rows)

\* GroupHandler.PostGroupMessage
PostGroupMessage(userID, groupID, now) ==
    IF ~IsMember(groupID, userID)
    THEN Respond("groupPost", StatusForbidden, <<>>) /\ UNCHANGED <<storeVars, published>>
    ELSE /\ Len(messages) + Len(groupMessages) < MaxRows
         /\ groupMessages' = CreateGroupMessage(groupMessages, groupID, userID, now)
         /\ published' =
                published \cup {MessageEvent("group", groupID, Len(groupMessages) + 1)}
         /\ Respond("groupPost", StatusCreated, <<groupMessages'[Len(groupMessages) + 1]>>)
         /\ UNCHANGED <<groupTables, chats, chatVisibility, messages>>

\* the status GroupHandler.DeleteGroupMessageForAll answers with
DeleteGroupMessageForAllStatus(userID, groupID, messageID) ==
    IF ~IsMember(groupID, userID) THEN StatusForbidden
    ELSE IF GetGroupMessage(messageID) = 0 THEN StatusNotFound
    ELSE IF groupMessages[messageID].group_id # groupID THEN StatusBadRequest
    ELSE IF groupMessages[messageID].sender_id # userID THEN StatusForbidden
    ELSE IF RowsAffected(groupMessages, messageID, userID) = {} THEN StatusNotFound
    ELSE StatusNoContent

\* GroupHandler.DeleteGroupMessageForAll
DeleteGroupMessageForAll(userID, groupID, messageID) ==
    LET status == DeleteGroupMessageForAllStatus(userID, groupID, messageID)
    IN  IF status # StatusNoContent
        THEN Respond("groupDeleteForAll", status, <<>>) /\ UNCHANGED <<storeVars, published>>
        ELSE /\ groupMessages' = DeleteMessageForAllRows(groupMessages, messageID, userID)
             /\ published' = published \cup {DeletionEvent("group", groupID, messageID)}
             /\ Respond("groupDeleteForAll", status, <<>>)
             /\ UNCHANGED <<groupTables, chats, chatVisibility, messages>>

(* -------------------------------- hub ---------------------------------- *)

\* the *websocket.Conn values the upgrader hands out
Conns == {1, 2}
\* the goroutines net/http starts, one per send or delete request
Threads == {1, 2}
\* users that open websocket sessions
SessionUsers == {1, 2}
\* the user whose send and delete requests run concurrently
Senders == {1}
\* the events by which a peer ends a session in SpecHub: a lost link
PeerEvents == {"lost"}
\* the kinds of room a connection is opened on, per connection
SessionKinds == <<{"chat"}, {"chat", "group"}>>

\* the kinds of room the registry keeps
Kinds == {"chat", "group"}

Without(f, k) == [x \in (DOMAIN f) \ {k} |-> f[x]]

\* ConnInfo of a session (device, ip, request and trace id are fixed per
\* connection and follow the connection id)
ConnInfo(conn, userID) == [ConnID |-> conn, UserID |-> userID]

\* NewHub: four empty maps. An inner map of chatRooms / groupRooms is a Go map
\* value, held by reference: addr is its identity (the connection whose Add
\* made it), keys its current key set.
\* mu is the sync.RWMutex: the goroutines holding it for reading, and the one
\* holding it for writing (0: none).
NewHub ==
    [chatRooms |-> <<>>, groupRooms |-> <<>>, chatConnInfo |-> <<>>, groupConnInfo |-> <<>>,
     mu |-> [readers |-> {}, writer |-> 0]]

\* Hub.AddChatClient
AddChatClient(h, chatID, conn, info) ==
    LET rooms == IF chatID \in DOMAIN h.chatRooms THEN h.chatRooms
                 ELSE (chatID :> [addr |-> conn, keys |-> {}]) @@ h.chatRooms
        infos == IF chatID \in DOMAIN h.chatConnInfo THEN h.chatConnInfo
                 ELSE (chatID :> <<>>) @@ h.chatConnInfo
    IN  [h EXCEPT !.chatRooms = [rooms EXCEPT ![chatID].keys = @ \cup {conn}],
                  !.chatConnInfo = [infos EXCEPT ![chatID] = (conn :> info) @@ Without(@, conn)]]

\* a detach that deletes the connection and keeps the room entry when its set
\* has become empty
RemoveChatClient_KeepsEmptyRoom(h, chatID, conn) ==
    LET rooms == IF chatID \notin DOMAIN h.chatRooms THEN h.chatRooms
                 ELSE [h.chatRooms EXCEPT ![chatID].keys = @ \ {conn}]
        infos == IF chatID \notin DOMAIN h.chatConnInfo THEN h.chatConnInfo
                 ELSE [h.chatConnInfo EXCEPT ![chatID] = Without(@, conn)]
    IN  [h EXCEPT !.chatRooms = rooms, !.chatConnInfo = infos]

\* a detach that takes a missing connection for the last one and drops the room
RemoveChatClient_DropsRoomOnMiss(h, chatID, conn) ==
    LET rooms == IF chatID \notin DOMAIN h.chatRooms THEN h.chatRooms
                 ELSE IF conn \notin h.chatRooms[chatID].keys
                         \/ h.chatRooms[chatID].keys \ {conn} = {}
                 THEN Without(h.chatRooms, chatID)
                 ELSE [h.chatRooms EXCEPT ![chatID].keys = @ \ {conn}]
        infos == IF chatID \notin DOMAIN h.chatConnInfo THEN h.chatConnInfo
                 ELSE IF conn \notin DOMAIN h.chatConnInfo[chatID]
                         \/ (DOMAIN h.chatConnInfo[chatID]) \ {conn} = {}
                 THEN Without(h.chatConnInfo, chatID)
                 ELSE [h.chatConnInfo EXCEPT ![chatID] = Without(@, conn)]
    IN  [h EXCEPT !.chatRooms = rooms, !.chatConnInfo = infos]

\* Hub.RemoveChatClient
RemoveChatClient(h, chatID, conn) ==
    LET rooms == IF chatID \notin DOMAIN h.chatRooms THEN h.chatRooms
                 ELSE IF h.chatRooms[chatID].keys \ {conn} = {}
                 THEN Without(h.chatRooms, chatID)
                 ELSE [h.chatRooms EXCEPT ![chatID].keys = @ \ {conn}]
        infos == IF chatID \notin DOMAIN h.chatConnInfo THEN h.chatConnInfo
                 ELSE IF (DOMAIN h.chatConnInfo[chatID]) \ {conn} = {}
                 THEN Without(h.chatConnInfo, chatID)
                 ELSE [h.chatConnInfo EXCEPT ![chatID] = Without(@, conn)]
    IN  [h EXCEPT !.chatRooms = rooms, !.chatConnInfo = infos]

\* Hub.AddGroupClient
AddGroupClient(h, groupID, conn, info) ==
    LET rooms == IF groupID \in DOMAIN h.groupRooms THEN h.groupRooms
                 ELSE (groupID :> [addr |-> conn, keys |-> {}]) @@ h.groupRooms
        infos == IF groupID \in DOMAIN h.groupConnInfo THEN h.groupConnInfo
                 ELSE (groupID :> <<>>) @@ h.groupConnInfo
    IN  [h EXCEPT !.groupRooms = [rooms EXCEPT ![groupID].keys = @ \cup {conn}],
                  !.groupConnInfo = [infos EXCEPT ![groupID] = (conn :> info) @@ Without(@, conn)]]

\* a detach that deletes the connection from the room map and leaves the
\* metadata map alone
RemoveGroupClient_RoomsOnly(h, groupID, conn) ==
    LET rooms == IF groupID \notin DOMAIN h.groupRooms THEN h.groupRooms
                 ELSE IF h.groupRooms[groupID].keys \ {conn} = {}
                 THEN Without(h.groupRooms, groupID)
                 ELSE [h.groupRooms EXCEPT ![groupID].keys = @ \ {conn}]
    IN  [h EXCEPT !.groupRooms = rooms]

\* Hub.RemoveGroupClient
RemoveGroupClient(h, groupID, conn) ==
    LET rooms == IF groupID \notin DOMAIN h.groupRooms THEN h.groupRooms
                 ELSE IF h.groupRooms[groupID].keys \ {conn} = {}
                 THEN Without(h.groupRooms, groupID)
                 ELSE [h.groupRooms EXCEPT ![groupID].keys = @ \ {conn}]
        infos == IF groupID \notin DOMAIN h.groupConnInfo THEN h.groupConnInfo
                 ELSE IF (DOMAIN h.groupConnInfo[groupID]) \ {conn} = {}
                 THEN Without(h.groupConnInfo, groupID)
                 ELSE [h.groupConnInfo EXCEPT ![groupID] = Without(@, conn)]
    IN  [h EXCEPT !.groupRooms = rooms, !.groupConnInfo = infos]

\* a hub that keeps chats and groups in one map
Rooms_OneNamespace(h, kind) == h.chatRooms

\* the rooms map a chat or a group call works on
Rooms(h, kind) == IF kind = "chat" THEN h.chatRooms ELSE h.groupRooms

\* an attach that enters the connection into the room of that id of both kinds
AddClient_BothNamespaces(h, kind, id, conn, info) ==
    AddGroupClient(AddChatClient(h, id, conn, info), id, conn, info)

AddClient(h, kind, id, conn, info) ==
    IF kind = "chat" THEN AddChatClient(h, id, conn, info)
    ELSE AddGroupClient(h, id, conn, info)

RemoveClient(h, kind, id, conn) ==
    IF kind = "chat" THEN RemoveChatClient(h, id, conn) ELSE RemoveGroupClient(h, id, conn)

\* Hub.getConnInfo: {info} when the connection has an entry, {} for ok = false
getConnInfo(h, kind, resourceID, conn) ==
    LET infos == IF kind = "chat" THEN h.chatConnInfo ELSE h.groupConnInfo
    IN  IF resourceID \in DOMAIN infos /\ conn \in DOMAIN infos[resourceID]
        THEN {infos[resourceID][conn]}
        ELSE {}

\* the payload of a ws lifecycle event: ws.event, ws.kind, ws.resource_id,
\* ws.conn_id, identity.user_id, ws.reason, ws.duration_ms
WSEvent(name, kind, resourceID, info, reason) ==
    [event |-> name, kind |-> kind, resource_id |-> resourceID,
     conn_id |-> info.ConnID, user_id |-> info.UserID, reason |-> reason,
     duration_ms |-> IF name = "ws_connect" THEN "0" ELSE "since ConnectedAt"]

\* conns := h.chatRooms[chatID]: the address of the inner map, 0 for nil
RoomRef(h, kind, id) ==
    IF id \in DOMAIN Rooms(h, kind) THEN Rooms(h, kind)[id].addr ELSE 0

\* the keys the inner map at address ref holds now; a map the hub dropped was
\* emptied first and nothing adds to it again
MapKeys(h, kind, id, ref) ==
    IF ref # 0 /\ id \in DOMAIN Rooms(h, kind) /\ Rooms(h, kind)[id].addr = ref
    THEN Rooms(h, kind)[id].keys
    ELSE {}

\* a connection the upgrader has not handed out yet
NewSock ==
    [local |-> "new", peer |-> "up", loop |-> FALSE, kind |-> "none", room |-> 0,
     user |-> 0, log |-> <<>>, writeFailed |-> FALSE]

\* a request goroutine before its request arrives
Idle ==
    [pc |-> "idle", op |-> "none", kind |-> "none", room |-> 0, event |-> <<>>,
     body |-> <<>>, ref |-> 0, snap |-> {}, seen |-> {}, failed |-> {}, cur |-> 0]

\* main: NewHub(), no connection accepted, no request in flight
HubInit ==
    /\ hub = NewHub
    /\ sock = [c \in Conns |-> NewSock]
    /\ thr = [t \in Threads |-> Idle]
    /\ wsEvents = {}
    /\ wsActive = [kind \in Kinds |-> 0]
    /\ fatal = FALSE

\* a REST handler that runs while no websocket session and no concurrent
\* request exists leaves the hub alone
HubIdle == UNCHANGED hubVars

(* ---------------------------- specification --------------------------- *)

\* the groups and group_members tables after the two POST /groups requests
\* that GroupMembers and GroupOwners describe
GroupsCreated == {[id |-> g, owner_id |-> GroupOwners[g]] : g \in DOMAIN GroupMembers}

MembersCreated ==
    UNION {{<<g, u>> : u \in GroupMembers[g]} : g \in DOMAIN GroupMembers}

\* the store after the migrations of a first start and the creation of the
\* two groups: every other table empty
Init ==
    /\ chats = <<>>
    /\ chatVisibility = <<>>
    /\ messages = <<>>
    /\ groupMessages = <<>>
    /\ groups = GroupsCreated
    /\ members = MembersCreated
    /\ groupSeq = Len(GroupMembers)
    /\ published = {}
    /\ resp = [op |-> "none", status |-> 0, body |-> <<>>]
    /\ HubInit

\* requests are handled one at a time, so the clock an INSERT reads does not
\* run backwards: NOW() is the number of rows inserted before
Now == Len(messages) + Len(groupMessages)

Next ==
    \/ \E r \in StartRequests : StartChat(r[1], r[2], r[3]) /\ HubIdle
    \/ \E u \in Users, c \in PostChatIDs : GetChatMessages(u, c) /\ HubIdle
    \/ \E u \in Users, c \in PostChatIDs : PostChatMessage(u, c, Now) /\ HubIdle
    \/ \E u \in Users, c \in PostChatIDs, m \in TargetIDs : DeleteMessageForMe(u, c, m) /\ HubIdle
    \/ \E u \in Users, c \in ChatIDs, m \in TargetIDs : DeleteMessageForAll(u, c, m) /\ HubIdle
    \/ \E u \in Users, c \in PostChatIDs : DeleteChatForMe(u, c) /\ HubIdle
    \/ \E u \in Users, g \in PostGroupIDs : GetGroupMessages(u, g) /\ HubIdle
    \/ \E u \in Users, g \in PostGroupIDs : PostGroupMessage(u, g, Now) /\ HubIdle
    \/ \E u \in Users, g \in GroupIDs, m \in TargetIDs : DeleteGroupMessageForAll(u, g, m) /\ HubIdle

Spec == Init /\ [][Next]_vars

(* ------------ SpecCross: deletes that name a message of another room --- *)

\* the requests of Spec that store, with every delete naming either chat and
\* either group
NextCross ==
    \/ \E r \in StartRequests : StartChat(r[1], r[2], r[3]) /\ HubIdle
    \/ \E u \in Users, c \in PostChatIDs : PostChatMessage(u, c, Now) /\ HubIdle
    \/ \E u \in Users, c \in ChatIDs, m \in TargetIDs : DeleteMessageForMe(u, c, m) /\ HubIdle
    \/ \E u \in Users, c \in ChatIDs, m \in TargetIDs : DeleteMessageForAll(u, c, m) /\ HubIdle
    \/ \E u \in Users, g \in PostGroupIDs : PostGroupMessage(u, g, Now) /\ HubIdle
    \/ \E u \in Users, g \in GroupIDs, m \in TargetIDs : DeleteGroupMessageForAll(u, g, m) /\ HubIdle

SpecCross == Init /\ [][NextCross]_vars

(* ------------------- SpecList: listing over any table ------------------ *)

\* the chats table after start-chat of users 1 and 2 and of users 1 and 3
TwoChats == <<[user1_id |-> 1, user2_id |-> 2], [user1_id |-> 1, user2_id |-> 3]>>

\* a messages row without its id. A row of chat 1, the listed chat: either
\* participant as sender, any combination of the three flags, any NOW()
\* (concurrent inserts may commit their ids in another order than their
\* timestamps). A row of chat 2, the other chat: one undeleted row of user 3.
RowBodies ==
    {r \in [chat_id : PostChatIDs, sender_id : Users, deleted_by_sender : BOOLEAN,
            deleted_by_receiver : BOOLEAN, deleted_for_all : BOOLEAN, created_at : Times] :
        r.sender_id \in {TwoChats[r.chat_id].user1_id, TwoChats[r.chat_id].user2_id}}
    \cup {[chat_id |-> c, sender_id |-> TwoChats[c].user2_id, deleted_by_sender |-> FALSE,
           deleted_by_receiver |-> FALSE, deleted_for_all |-> FALSE, created_at |-> 0] :
             c \in ChatIDs \ PostChatIDs}

WithID(r, i) ==
    [id |-> i, chat_id |-> r.chat_id, sender_id |-> r.sender_id,
     deleted_by_sender |-> r.deleted_by_sender,
     deleted_by_receiver |-> r.deleted_by_receiver,
     deleted_for_all |-> r.deleted_for_all, created_at |-> r.created_at]

\* every messages table of at most MaxRows rows over the two chats
InitList ==
    /\ chats = TwoChats
    /\ chatVisibility = [p \in {<<1, 1>>, <<1, 2>>, <<2, 1>>, <<2, 3>>} |-> FALSE]
    /\ \E n \in 0 .. MaxRows : \E f \in [1 .. n -> RowBodies] :
          messages = [i \in 1 .. n |-> WithID(f[i], i)]
    /\ groupMessages = <<>>
    /\ groups = GroupsCreated
    /\ members = MembersCreated
    /\ groupSeq = Len(GroupMembers)
    /\ published =
          {MessageEvent("chat", messages[i].chat_id, i) : i \in DOMAIN messages}
          \cup {DeletionEvent("chat", messages[i].chat_id, i) :
                   i \in {j \in DOMAIN messages : messages[j].deleted_for_all}}
    /\ resp = [op |-> "none", status |-> 0, body |-> <<>>]
    /\ HubInit

NextList == \E u \in Users, c \in ChatIDs : GetChatMessages(u, c) /\ HubIdle

SpecList == InitList /\ [][NextList]_vars

(* ---------------- SpecHub: sessions and concurrent requests ------------- *)

\* the room ids sessions and concurrent requests name, per kind
RoomIDs(kind) == IF kind = "chat" THEN PostChatIDs ELSE PostGroupIDs

\* the request goroutine is inside the range loop of a Broadcast* call
Ranging(t) ==
    thr[t].pc \in {"range", "write", "remove", "removing", "wserror", "getinfo"}

\* a write to the inner map of room id by goroutine self (0: a session) is
\* unsynchronised with the range loop of another goroutine over the same map
RacesWith(self, kind, id) ==
    \E t \in Threads \ {self} :
        /\ Ranging(t)
        /\ thr[t].kind = kind /\ thr[t].room = id
        /\ thr[t].ref # 0 /\ thr[t].ref = RoomRef(hub, kind, id)

\* a data race on a Go map: the runtime may stop the process ("concurrent map
\* iteration and map write") or let both accesses through
MapWrite(self, kind, id) ==
    fatal' \in (IF RacesWith(self, kind, id) THEN BOOLEAN ELSE {FALSE})

\* observability.IncWSActive(kind): wsActiveConnections.WithLabelValues(kind).Inc()
IncWSActive(gauge, kind) == [gauge EXCEPT ![kind] = @ + 1]

\* observability.DecWSActive(kind): wsActiveConnections.WithLabelValues(kind).Dec()
DecWSActive(gauge, kind) == [gauge EXCEPT ![kind] = @ - 1]

\* Handle from the successful upgrader.Upgrade on: Add*Client, IncWSActive, the
\* ws_connect
\* event and the start of the read loop goroutine
OpenSession(conn, kind, id, userID) ==
    /\ sock' = [sock EXCEPT ![conn] =
                    [@ EXCEPT !.local = "open", !.loop = TRUE, !.kind = kind,
                              !.room = id, !.user = userID]]
    /\ hub' = AddClient(hub, kind, id, conn, ConnInfo(conn, userID))
    /\ MapWrite(0, kind, id)
    /\ wsActive' = IncWSActive(wsActive, kind)
    /\ wsEvents' = wsEvents \cup
           {WSEvent("ws_connect", kind, id, ConnInfo(conn, userID), "")}
    /\ UNCHANGED <<storeVars, published, resp, thr>>

\* ChatWebSocketHandler.Handle / GroupWebSocketHandler.Handle up to the start
\* of the read loop, for a request with a well-formed id and a valid token
Handle(conn, kind, id, userID) ==
    /\ ~fatal
    /\ sock[conn].local = "new"
    /\ IF ~(IF kind = "chat" THEN IsParticipant(id, userID) ELSE IsMember(id, userID))
       THEN /\ Respond("ws", StatusForbidden, <<>>)
            /\ UNCHANGED <<storeVars, published, hubVars>>
       ELSE OpenSession(conn, kind, id, userID)

\* the peer ends the session: a close frame (normal closure) or a lost link
PeerClose(conn, how) ==
    /\ ~fatal
    /\ sock[conn].loop
    /\ sock[conn].peer = "up"
    /\ sock' = [sock EXCEPT ![conn].peer = how]
    /\ UNCHANGED <<storeVars, published, resp, hub, thr, wsEvents, wsActive, fatal>>

\* the close frames a peer ends a session with: normal closure, going away,
\* internal error
PeerCloseCode == ("closed" :> 1000) @@ ("away" :> 1001) @@ ("failed" :> 1011)

\* err.Error() of the *websocket.CloseError of a close code
CloseError == (1000 :> "close 1000") @@ (1001 :> "close 1001") @@ (1011 :> "close 1011")

\* the codes the read loop passes to websocket.IsCloseError
NormalCloseCodes == {1000, 1001}

\* a read loop that takes only the normal closure for a clean close
IsCloseError_NormalOnly(err, codes) == err = CloseError[1000]

\* websocket.IsCloseError(err, codes...)
IsCloseError(err, codes) == \E code \in codes : err = CloseError[code]

\* a ReadMessage that stays blocked on a lost link until the connection is
\* closed locally
ReadErrors_BlockedOnLostLink(conn) ==
    (IF sock[conn].peer \in DOMAIN PeerCloseCode
     THEN {CloseError[PeerCloseCode[sock[conn].peer]]} ELSE {})
    \cup (IF sock[conn].local = "closed" THEN {"read error"} ELSE {})

\* the errors conn.ReadMessage can return now: the peer's close frame, or a
\* read error on a lost link or on a connection that was closed locally
ReadErrors(conn) ==
    (IF sock[conn].peer \in DOMAIN PeerCloseCode
     THEN {CloseError[PeerCloseCode[sock[conn].peer]]} ELSE {})
    \cup (IF sock[conn].peer = "lost" \/ sock[conn].local = "closed"
          THEN {"read error"} ELSE {})

\* a read loop that decrements the gauge only for a connection it finds still
\* attached
ReadLoop_DecIfAttached(conn) ==
    /\ ~fatal
    /\ sock[conn].loop
    /\ \E closeReason \in ReadErrors(conn) :
          LET info == ConnInfo(conn, sock[conn].user)
              kind == sock[conn].kind
              id == sock[conn].room
          IN  /\ wsEvents' = wsEvents
                    \cup (IF ~IsCloseError(closeReason, NormalCloseCodes)
                          THEN {WSEvent("ws_error", kind, id, info, closeReason)}
                          ELSE {})
                    \cup {WSEvent("ws_disconnect", kind, id, info, closeReason)}
              /\ hub' = RemoveClient(hub, kind, id, conn)
              /\ wsActive' = IF id \in DOMAIN Rooms(hub, kind) /\ conn \in Rooms(hub, kind)[id].keys
                             THEN DecWSActive(wsActive, kind) ELSE wsActive
              /\ IF id \in DOMAIN Rooms(hub, kind)
                 THEN MapWrite(0, kind, id)
                 ELSE fatal' = FALSE
              /\ sock' = [sock EXCEPT ![conn].local = "closed", ![conn].loop = FALSE]
    /\ UNCHANGED <<storeVars, published, resp, thr>>

\* the read loop goroutine: ReadMessage fails, the loop returns and the
\* deferred function detaches the connection, decrements the gauge and closes
\* the connection
ReadLoop(conn) ==
    /\ ~fatal
    /\ sock[conn].loop
    /\ \E closeReason \in ReadErrors(conn) :
          LET info == ConnInfo(conn, sock[conn].user)
              kind == sock[conn].kind
              id == sock[conn].room
          IN  /\ wsEvents' = wsEvents
                    \cup (IF ~IsCloseError(closeReason, NormalCloseCodes)
                          THEN {WSEvent("ws_error", kind, id, info, closeReason)}
                          ELSE {})
                    \cup {WSEvent("ws_disconnect", kind, id, info, closeReason)}
              /\ hub' = RemoveClient(hub, kind, id, conn)
              /\ wsActive' = DecWSActive(wsActive, kind)
              /\ IF id \in DOMAIN Rooms(hub, kind)
                 THEN MapWrite(0, kind, id)
                 ELSE fatal' = FALSE
              /\ sock' = [sock EXCEPT ![conn].local = "closed", ![conn].loop = FALSE]
    /\ UNCHANGED <<storeVars, published, resp, thr>>

\* the handler has persisted and goes on to its Broadcast* call
ToBroadcast(t, op, kind, id, event, body) ==
    /\ thr' = [thr EXCEPT ![t] =
                  [Idle EXCEPT !.pc = "broadcast", !.op = op, !.kind = kind,
                               !.room = id, !.event = event, !.body = body]]
    /\ UNCHANGED <<published, resp, hub, sock, wsEvents, wsActive, fatal>>

\* a request goroutine that has answered
Done == [Idle EXCEPT !.pc = "done"]

\* the handler answers before it reaches the store
Refuse(t, op, status) ==
    /\ Respond(op, status, <<>>)
    /\ thr' = [thr EXCEPT ![t] = Done]
    /\ UNCHANGED <<storeVars, published, hub, sock, wsEvents, wsActive, fatal>>

\* ChatHandler.PostChatMessage up to the call of BroadcastChatMessage
PostChatMessagePersist(t, userID, chatID) ==
    /\ ~fatal
    /\ thr[t].pc = "idle"
    /\ IF GetChat(chatID) = 0 THEN Refuse(t, "post", StatusNotFound)
       ELSE IF ~isChatParticipant(chatID, userID) THEN Refuse(t, "post", StatusForbidden)
       ELSE /\ Len(messages) + Len(groupMessages) < MaxRows
            /\ messages' = CreateChatMessage(messages, chatID, userID,
                                             Len(messages) + Len(groupMessages))
            /\ chatVisibility' =
                   UnhideChatForUser(
                       UnhideChatForUser(chatVisibility, chatID, chats[chatID].user1_id),
                       chatID, chats[chatID].user2_id)
            /\ ToBroadcast(t, "post", "chat", chatID,
                           MessageEvent("chat", chatID, Len(messages) + 1),
                           <<messages'[Len(messages) + 1]>>)
            /\ UNCHANGED <<groupTables, chats, groupMessages>>

\* GroupHandler.PostGroupMessage up to the call of BroadcastGroupMessage
PostGroupMessagePersist(t, userID, groupID) ==
    /\ ~fatal
    /\ thr[t].pc = "idle"
    /\ IF ~IsMember(groupID, userID) THEN Refuse(t, "groupPost", StatusForbidden)
       ELSE /\ Len(messages) + Len(groupMessages) < MaxRows
            /\ groupMessages' = CreateGroupMessage(groupMessages, groupID, userID,
                                                   Len(messages) + Len(groupMessages))
            /\ ToBroadcast(t, "groupPost", "group", groupID,
                           MessageEvent("group", groupID, Len(groupMessages) + 1),
                           <<groupMessages'[Len(groupMessages) + 1]>>)
            /\ UNCHANGED <<groupTables, chats, chatVisibility, messages>>

\* ChatHandler.DeleteMessageForAll up to the call of BroadcastDeletion
DeleteMessageForAllPersist(t, userID, chatID, messageID) ==
    /\ ~fatal
    /\ thr[t].pc = "idle"
    /\ LET status == DeleteMessageForAllStatus(userID, chatID, messageID)
       IN  IF status # StatusNoContent THEN Refuse(t, "deleteForAll", status)
           ELSE /\ messages' = DeleteMessageForAllRows(messages, messageID, userID)
                /\ ToBroadcast(t, "deleteForAll", "chat", chatID,
                               DeletionEvent("chat", chatID, messageID), <<>>)
                /\ UNCHANGED <<groupTables, chats, chatVisibility, groupMessages>>

\* Broadcast*: h.mu.RLock(); conns := h.chatRooms[chatID]; h.mu.RUnlock().
\* conns is the inner map itself; snap keeps what a copy made at this point
\* would hold.
BroadcastSnapshot(t) ==
    /\ ~fatal
    /\ thr[t].pc = "broadcast"
    /\ thr' = [thr EXCEPT ![t].pc = "range",
                          ![t].ref = RoomRef(hub, thr[t].kind, thr[t].room),
                          ![t].snap = MapKeys(hub, thr[t].kind, thr[t].room,
                                              RoomRef(hub, thr[t].kind, thr[t].room))]
    /\ published' = published \cup {thr[t].event}
    /\ UNCHANGED <<storeVars, resp, hub, sock, wsEvents, wsActive, fatal>>

\* the range loop over a map whose only aborting statement is none: it is over
\* when every key that was in the map at the start and is still in it has been
\* produced (a key added meanwhile may be produced or skipped)
RangeDone_AbortOnFailure(t) ==
    \/ thr[t].failed # {}
    \/ (thr[t].snap \cap MapKeys(hub, thr[t].kind, thr[t].room, thr[t].ref))
           \subseteq thr[t].seen

RangeDone(t) ==
    (thr[t].snap \cap MapKeys(hub, thr[t].kind, thr[t].room, thr[t].ref))
        \subseteq thr[t].seen

\* a range loop that may produce a key again: a second write attempt on a
\* connection within one publish
BroadcastRange_Revisits(t) ==
    /\ ~fatal
    /\ thr[t].pc = "range"
    /\ \/ \E conn \in MapKeys(hub, thr[t].kind, thr[t].room, thr[t].ref) :
             /\ Len(sock[conn].log) < 2
             /\ thr' = [thr EXCEPT ![t].pc = "write", ![t].cur = conn,
                                   ![t].seen = @ \cup {conn}]
       \/ /\ RangeDone(t)
          /\ thr' = [thr EXCEPT ![t].pc = "respond", ![t].cur = 0]
    /\ UNCHANGED <<storeVars, published, resp, hub, sock, wsEvents, wsActive, fatal>>

\* for conn := range conns: the next key and the call of conn.WriteMessage,
\* or the end of the loop
BroadcastRange(t) ==
    /\ ~fatal
    /\ thr[t].pc = "range"
    /\ \/ \E conn \in MapKeys(hub, thr[t].kind, thr[t].room, thr[t].ref) \ thr[t].seen :
             thr' = [thr EXCEPT ![t].pc = "write", ![t].cur = conn,
                                ![t].seen = @ \cup {conn}]
       \/ /\ RangeDone(t)
          /\ thr' = [thr EXCEPT ![t].pc = "respond", ![t].cur = 0]
    /\ UNCHANGED <<storeVars, published, resp, hub, sock, wsEvents, wsActive, fatal>>

\* the results conn.WriteMessage can return: an error on a connection that was
\* closed locally, either result on a lost link (the kernel may still buffer
\* the frame), nil otherwise (the code sets no write deadline)
WriteResults(conn) ==
    IF sock[conn].local = "closed" THEN {FALSE}
    ELSE IF sock[conn].peer = "up" THEN {TRUE}
    ELSE BOOLEAN

\* conn.WriteMessage returns; on an error the loop body calls conn.Close()
WriteMessage(t, ok) ==
    /\ ~fatal
    /\ thr[t].pc = "write"
    /\ ok \in WriteResults(thr[t].cur)
    /\ IF ok
       THEN /\ sock' = [sock EXCEPT ![thr[t].cur].log = Append(@, thr[t].event)]
            /\ thr' = [thr EXCEPT ![t].pc = "range"]
       ELSE /\ sock' = [sock EXCEPT ![thr[t].cur].local = "closed",
                                    ![thr[t].cur].writeFailed = TRUE]
            /\ thr' = [thr EXCEPT ![t].pc = "remove", ![t].failed = @ \cup {thr[t].cur}]
    /\ UNCHANGED <<storeVars, published, resp, hub, wsEvents, wsActive, fatal>>

\* h.RemoveChatClient(chatID, conn) in the loop body
BroadcastRemove(t) ==
    /\ ~fatal
    /\ thr[t].pc = "remove"
    /\ hub' = RemoveClient(hub, thr[t].kind, thr[t].room, thr[t].cur)
    /\ IF thr[t].room \in DOMAIN Rooms(hub, thr[t].kind)
       THEN MapWrite(t, thr[t].kind, thr[t].room)
       ELSE fatal' = FALSE
    /\ thr' = [thr EXCEPT ![t].pc = "wserror"]
    /\ UNCHANGED <<storeVars, published, resp, sock, wsEvents, wsActive>>

\* Hub.publishWSError in the loop body: returns at once when getConnInfo finds
\* no entry
publishWSError(t) ==
    /\ ~fatal
    /\ thr[t].pc = "wserror"
    /\ wsEvents' = wsEvents \cup
           {WSEvent("ws_error", thr[t].kind, thr[t].room, info, "write error") :
               info \in getConnInfo(hub, thr[t].kind, thr[t].room, thr[t].cur)}
    /\ thr' = [thr EXCEPT ![t].pc = "range"]
    /\ UNCHANGED <<storeVars, published, resp, hub, sock, fatal, wsActive>>

\* the handler after its Broadcast* call: c.JSON(http.StatusCreated, msg) of a
\* send, c.Status(http.StatusNoContent) of a delete
HandlerRespond(t) ==
    /\ ~fatal
    /\ thr[t].pc = "respond"
    /\ Respond(thr[t].op,
               IF thr[t].op \in {"post", "groupPost"} THEN StatusCreated
               ELSE StatusNoContent,
               thr[t].body)
    /\ thr' = [thr EXCEPT ![t] = Done]
    /\ UNCHANGED <<storeVars, published, hub, sock, wsEvents, wsActive, fatal>>

\* which goroutine a request gets and which pointer the upgrader hands out
\* make no difference: the lowest unused one is taken
LowestIdle(t) == \A o \in Threads : o < t => thr[o].pc # "idle"

LowestNew(conn) == \A o \in Conns : o < conn => sock[o].local # "new"

\* the start-chat request that creates the chat of users 1 and 2
HubStartRequests == {<<1, 2>>}

NextHub ==
    \/ \E r \in HubStartRequests : ~fatal /\ StartChat(r[1], r[2], TRUE) /\ HubIdle
    \/ \E conn \in Conns, u \in SessionUsers :
          \E kind \in SessionKinds[conn] : \E id \in RoomIDs(kind) :
              u = conn /\ LowestNew(conn) /\ Handle(conn, kind, id, u)
    \/ \E conn \in Conns, how \in PeerEvents : PeerClose(conn, how)
    \/ \E conn \in Conns : ReadLoop(conn)
    \/ \E t \in Threads, u \in Senders, c \in PostChatIDs : LowestIdle(t) /\ PostChatMessagePersist(t, u, c)
    \/ \E t \in Threads, u \in Senders, g \in PostGroupIDs : LowestIdle(t) /\ PostGroupMessagePersist(t, u, g)
    \/ \E t \in Threads, u \in Senders, c \in PostChatIDs, m \in TargetIDs :
          LowestIdle(t) /\ DeleteMessageForAllPersist(t, u, c, m)
    \/ \E t \in Threads : BroadcastSnapshot(t)
    \/ \E t \in Threads : BroadcastRange(t)
    \/ \E t \in Threads, ok \in BOOLEAN : WriteMessage(t, ok)
    \/ \E t \in Threads : BroadcastRemove(t)
    \/ \E t \in Threads : publishWSError(t)
    \/ \E t \in Threads : HandlerRespond(t)

SpecHub == Init /\ [][NextHub]_vars

\* the read loop is a goroutine of its own, blocked in conn.ReadMessage: when
\* the read can fail, the runtime wakes the goroutine and the scheduler runs it
FairSpecHub == SpecHub /\ \A conn \in Conns : WF_vars(ReadLoop(conn))

(* ---------------- SpecGroups: POST /groups, statement by statement -------- *)

\* the last value groups_id_seq may hand out
MaxGroupSeq == 4

StatusBadGateway == 502

\* the POST /groups requests: caller and member_ids (the caller missing from
\* the list, named in it, named twice; another member named twice)
CreateRequests == {<<1, <<>>>>, <<3, <<2, 2>>>>, <<1, <<1, 2, 1>>>>}

\* a member set built from the list alone
MemberSet_OwnerNotAdded(ownerID, memberIDs) ==
    {memberIDs[i] : i \in DOMAIN memberIDs}

\* memberSet := map[int]struct{}{ownerID: {}} and the loop over memberIDs
MemberSet(ownerID, memberIDs) ==
    {ownerID} \cup {memberIDs[i] : i \in DOMAIN memberIDs}

\* ids of the map in ascending order: sort.Ints(ids)
SortInts(S) ==
    CHOOSE s \in [1 .. Cardinality(S) -> S] : \A i, j \in DOMAIN s : i < j => s[i] < s[j]

\* statements that run on the database handle, each committed by itself
InTransaction_AutoCommit(table, rows, commit) == table \cup rows

\* the table other sessions see: rows written by tx.QueryRowxContext and
\* tx.ExecContext join it at tx.Commit
InTransaction(table, rows, commit) == IF commit THEN table \cup rows ELSE table

\* the rows the transaction of goroutine t has written: its groups row once
\* it has an id, and the first cur rows of group_members (the locals of t are
\* ownerID, memberIDs and ids in body, group.ID in room)
TxGroupRows(t) ==
    IF thr[t].room = 0 THEN {}
    ELSE {[id |-> thr[t].room, owner_id |-> thr[t].body[1]]}

TxMemberRows(t, n) == {<<thr[t].room, thr[t].body[3][j]>> : j \in 1 .. n}

\* the deferred tx.Rollback() and the handler's answer to a failed CreateGroup
CreateGroupFailed(t) ==
    /\ Respond("createGroup", StatusInternalServerError, <<>>)
    /\ thr' = [thr EXCEPT ![t] = Idle]

\* GroupHandler.CreateGroup up to r.db.BeginTxx: the members are validated by
\* the user directory when the list is not empty
CreateGroupBegin(t, ownerID, memberIDs, validated, begun) ==
    /\ thr[t].pc = "idle"
    /\ IF Len(memberIDs) > 0 /\ ~validated
       THEN Respond("createGroup", StatusBadGateway, <<>>) /\ UNCHANGED thr
       ELSE IF ~begun
       THEN Respond("createGroup", StatusInternalServerError, <<>>) /\ UNCHANGED thr
       ELSE /\ thr' = [thr EXCEPT ![t] =
                          [Idle EXCEPT !.pc = "txGroup", !.op = "createGroup",
                                       !.body = <<ownerID, memberIDs, <<>>>>]]
            /\ UNCHANGED resp
    /\ UNCHANGED <<storeVars, published, hub, sock, wsEvents, wsActive, fatal>>

\* INSERT INTO groups ... RETURNING id, then the member set and sort.Ints
CreateGroupInsert(t, ok) ==
    /\ thr[t].pc = "txGroup"
    /\ IF ok
       THEN /\ groupSeq < MaxGroupSeq
            /\ groupSeq' = groupSeq + 1
            /\ groups' = InTransaction(groups,
                              {[id |-> groupSeq + 1, owner_id |-> thr[t].body[1]]}, FALSE)
            /\ thr' = [thr EXCEPT ![t].pc = "txMember", ![t].room = groupSeq + 1,
                                  ![t].cur = 0,
                                  ![t].body = <<thr[t].body[1], thr[t].body[2],
                                                SortInts(MemberSet(thr[t].body[1],
                                                                   thr[t].body[2]))>>]
            /\ UNCHANGED resp
       ELSE /\ CreateGroupFailed(t)
            /\ UNCHANGED <<groups, groupSeq>>
    /\ UNCHANGED <<chats, chatVisibility, messages, groupMessages, members,
                   published, hub, sock, wsEvents, wsActive, fatal>>

\* the loop over ids: INSERT INTO group_members of the next id
CreateGroupMember(t, ok) ==
    /\ thr[t].pc = "txMember"
    /\ thr[t].cur < Len(thr[t].body[3])
    /\ IF ok
       THEN /\ members' = InTransaction(members, TxMemberRows(t, thr[t].cur + 1), FALSE)
            /\ thr' = [thr EXCEPT ![t].cur = @ + 1]
            /\ UNCHANGED resp
       ELSE /\ CreateGroupFailed(t)
            /\ UNCHANGED members
    /\ UNCHANGED <<chats, chatVisibility, messages, groupMessages, groups, groupSeq,
                   published, hub, sock, wsEvents, wsActive, fatal>>

\* tx.Commit() after the loop and the handler's answer
CreateGroupCommit(t, ok) ==
    /\ thr[t].pc = "txMember"
    /\ thr[t].cur = Len(thr[t].body[3])
    /\ IF ok
       THEN /\ groups' = InTransaction(groups, TxGroupRows(t), TRUE)
            /\ members' = InTransaction(members, TxMemberRows(t, thr[t].cur), TRUE)
            /\ Respond("createGroup", StatusCreated, <<thr[t].room>>)
            /\ thr' = [thr EXCEPT ![t] = Idle]
       ELSE /\ CreateGroupFailed(t)
            /\ UNCHANGED <<groups, members>>
    /\ UNCHANGED <<chats, chatVisibility, messages, groupMessages, groupSeq,
                   published, hub, sock, wsEvents, wsActive, fatal>>

NextGroups ==
    \/ \E t \in Threads, r \in CreateRequests, validated \in BOOLEAN, begun \in BOOLEAN :
          LowestIdle(t) /\ CreateGroupBegin(t, r[1], r[2], validated, begun)
    \/ \E t \in Threads, ok \in BOOLEAN : CreateGroupInsert(t, ok)
    \/ \E t \in Threads, ok \in BOOLEAN : CreateGroupMember(t, ok)
    \/ \E t \in Threads, ok \in BOOLEAN : CreateGroupCommit(t, ok)
    \/ \E u \in Users, g \in 1 .. MaxGroupSeq : GetGroupMessages(u, g) /\ HubIdle

SpecGroups == Init /\ [][NextGroups]_vars

(* ------- SpecRooms: sessions and sends over several rooms of the hub ------ *)

\* the rooms sessions are opened on and messages are sent to: chat 1, and
\* groups 1 and 2 (the same numeric id in both namespaces, two ids in one)
WideRoomIDs(kind) == IF kind = "chat" THEN PostChatIDs ELSE GroupIDs

\* the user who sends: participant of chat 1, member of groups 1 and 2
RoomSenders == {2}

NextRooms ==
    \/ \E r \in HubStartRequests : ~fatal /\ StartChat(r[1], r[2], TRUE) /\ HubIdle
    \/ \E conn \in Conns, kind \in Kinds : \E id \in WideRoomIDs(kind) :
          LowestNew(conn) /\ Handle(conn, kind, id, conn)
    \/ \E conn \in Conns, how \in PeerEvents : PeerClose(conn, how)
    \/ \E conn \in Conns : ReadLoop(conn)
    \/ \E t \in Threads, u \in RoomSenders, c \in PostChatIDs :
          LowestIdle(t) /\ PostChatMessagePersist(t, u, c)
    \/ \E t \in Threads, u \in RoomSenders, g \in GroupIDs :
          LowestIdle(t) /\ PostGroupMessagePersist(t, u, g)
    \/ \E t \in Threads : BroadcastSnapshot(t)
    \/ \E t \in Threads : BroadcastRange(t)
    \/ \E t \in Threads, ok \in BOOLEAN : WriteMessage(t, ok)
    \/ \E t \in Threads : BroadcastRemove(t)
    \/ \E t \in Threads : publishWSError(t)
    \/ \E t \in Threads : HandlerRespond(t)

SpecRooms == Init /\ [][NextRooms]_vars

(* ------------- SpecRepeat: delete-for-all requests, repeated ----------- *)

\* GroupHandler.DeleteGroupMessageForAll up to the call of BroadcastGroupDeletion
DeleteGroupMessageForAllPersist(t, userID, groupID, messageID) ==
    /\ ~fatal
    /\ thr[t].pc = "idle"
    /\ LET status == DeleteGroupMessageForAllStatus(userID, groupID, messageID)
       IN  IF status # StatusNoContent THEN Refuse(t, "groupDeleteForAll", status)
           ELSE /\ groupMessages' = DeleteMessageForAllRows(groupMessages, messageID, userID)
                /\ ToBroadcast(t, "groupDeleteForAll", "group", groupID,
                               DeletionEvent("group", groupID, messageID), <<>>)
                /\ UNCHANGED <<groupTables, chats, chatVisibility, messages>>

\* the store after the start-chat of users 1 and 2, a send of user 1 in the
\* chat and a send of user 1 in the first group, all answered
InitRepeat ==
    /\ chats = <<[user1_id |-> 1, user2_id |-> 2]>>
    /\ chatVisibility = [p \in {<<1, 1>>, <<1, 2>>} |-> FALSE]
    /\ messages = CreateChatMessage(<<>>, 1, 1, 0)
    /\ groupMessages = CreateGroupMessage(<<>>, 1, 1, 1)
    /\ groups = GroupsCreated
    /\ members = MembersCreated
    /\ groupSeq = Len(GroupMembers)
    /\ published = {MessageEvent("chat", 1, 1), MessageEvent("group", 1, 1)}
    /\ resp = [op |-> "groupPost", status |-> StatusCreated,
               body |-> <<CreateGroupMessage(<<>>, 1, 1, 1)[1]>>]
    /\ HubInit

\* the callers of the delete requests: the sender of both messages and another
\* participant and member
RepeatUsers == {1, 2}

NextRepeat ==
    \/ \E conn \in Conns, u \in SessionUsers :
          \E kind \in SessionKinds[conn] : \E id \in RoomIDs(kind) :
              u = conn /\ LowestNew(conn) /\ Handle(conn, kind, id, u)
    \/ \E conn \in Conns, how \in PeerEvents : PeerClose(conn, how)
    \/ \E conn \in Conns : ReadLoop(conn)
    \/ \E t \in Threads, u \in RepeatUsers, c \in PostChatIDs, m \in TargetIDs :
          LowestIdle(t) /\ DeleteMessageForAllPersist(t, u, c, m)
    \/ \E t \in Threads, u \in RepeatUsers, g \in PostGroupIDs, m \in TargetIDs :
          LowestIdle(t) /\ DeleteGroupMessageForAllPersist(t, u, g, m)
    \/ \E t \in Threads : BroadcastSnapshot(t)
    \/ \E t \in Threads : BroadcastRange(t)
    \/ \E t \in Threads, ok \in BOOLEAN : WriteMessage(t, ok)
    \/ \E t \in Threads : BroadcastRemove(t)
    \/ \E t \in Threads : publishWSError(t)
    \/ \E t \in Threads : HandlerRespond(t)

SpecRepeat == InitRepeat /\ [][NextRepeat]_vars

(* -------- SpecChats: chat list, start-chat races, storage failures ------- *)

\* the WHERE clause without its test of cv.hidden
ListChatIDs_IgnoresHidden(rows, vis, userID) ==
    {id \in DOMAIN rows : rows[id].user1_id = userID \/ rows[id].user2_id = userID}

\* the WHERE clause of ChatRepo.ListChats: the caller's chats without a
\* chat_visibility row (cv.hidden IS NULL) or with hidden = FALSE
ListChatIDs(rows, vis, userID) ==
    {id \in DOMAIN rows :
        /\ rows[id].user1_id = userID \/ rows[id].user2_id = userID
        /\ <<id, userID>> \notin DOMAIN vis \/ vis[<<id, userID>>] = FALSE}

\* ChatRepo.ListChats: the summaries, ORDER BY created_at DESC (chats rows are
\* inserted one statement at a time, so created_at ascends with the id)
ListChats(rows, vis, userID) ==
    LET ids == ListChatIDs(rows, vis, userID)
    IN  [k \in 1 .. Cardinality(ids) |->
            LET id == CHOOSE i \in ids : Cardinality({j \in ids : j > i}) = k - 1
            IN  [ChatID |-> id,
                 FriendID |-> IF rows[id].user1_id = userID THEN rows[id].user2_id
                              ELSE rows[id].user1_id]]

\* ChatHandler.ListChats
ListChatsHandler(userID) ==
    /\ Respond("chats", StatusOK, ListChats(chats, chatVisibility, userID))
    /\ UNCHANGED <<storeVars, published>>

\* a chats table without its UNIQUE constraint
UniqueViolation_NoConstraint(rows, user1, user2) == FALSE

\* UNIQUE(user1_id, user2_id): the INSERT of the pair fails
UniqueViolation(rows, user1, user2) ==
    \E id \in DOMAIN rows : rows[id].user1_id = user1 /\ rows[id].user2_id = user2

\* ChatHandler.StartChat up to the SELECT of CreateOrGetChat: refused, answered
\* from the row found, or on its way to the INSERT
StartChatSelect(t, userID, friendID, friends) ==
    /\ thr[t].pc = "idle"
    /\ IF ~friends
       THEN Respond("start", StatusForbidden, <<>>) /\ UNCHANGED <<storeVars, thr>>
       ELSE IF userID = friendID
       THEN Respond("start", StatusBadRequest, <<>>) /\ UNCHANGED <<storeVars, thr>>
       ELSE LET p == SortPair(userID, friendID)
                found == SelectChat(p[1], p[2])
            IN  IF found # 0
                THEN /\ chatVisibility' =
                            UnhideChatForUser(
                                UnhideChatForUser(chatVisibility, found, userID),
                                found, friendID)
                     /\ Respond("start", StatusOK, <<found>>)
                     /\ UNCHANGED <<groupTables, chats, messages, groupMessages, thr>>
                ELSE /\ thr' = [thr EXCEPT ![t] =
                                   [Idle EXCEPT !.pc = "insert", !.op = "start",
                                                !.body = <<userID, friendID>>]]
                     /\ UNCHANGED <<storeVars, resp>>
    /\ UNCHANGED <<published, hub, sock, wsEvents, wsActive, fatal>>

\* CreateOrGetChat from its INSERT on, and the answer of StartChat
StartChatInsert(t) ==
    /\ thr[t].pc = "insert"
    /\ LET userID == thr[t].body[1]
           friendID == thr[t].body[2]
           p == SortPair(userID, friendID)
           id == Len(chats) + 1
       IN  IF UniqueViolation(chats, p[1], p[2])
           THEN /\ Respond("start", StatusInternalServerError, <<>>)
                /\ UNCHANGED storeVars
           ELSE /\ chats' = Append(chats, [user1_id |-> p[1], user2_id |-> p[2]])
                /\ chatVisibility' =
                       UnhideChatForUser(UnhideChatForUser(chatVisibility, id, userID),
                                         id, friendID)
                /\ Respond("start", StatusOK, <<id>>)
                /\ UNCHANGED <<groupTables, messages, groupMessages>>
    /\ thr' = [thr EXCEPT ![t] = Idle]
    /\ UNCHANGED <<published, hub, sock, wsEvents, wsActive, fatal>>

\* a send that unhides the chat before it stores the message
PostChatMessageStorage_UnhideFirst(userID, chatID, now, stored, unhid1, unhid2) ==
    IF GetChat(chatID) = 0
    THEN Respond("post", StatusNotFound, <<>>) /\ UNCHANGED <<storeVars, published>>
    ELSE IF ~isChatParticipant(chatID, userID)
    THEN Respond("post", StatusForbidden, <<>>) /\ UNCHANGED <<storeVars, published>>
    ELSE /\ chatVisibility' =
                UnhideChatForUser(
                    UnhideChatForUser(chatVisibility, chatID, chats[chatID].user1_id),
                    chatID, chats[chatID].user2_id)
         /\ IF ~stored
            THEN /\ Respond("post", StatusInternalServerError, <<>>)
                 /\ UNCHANGED <<groupTables, chats, messages, groupMessages, published>>
            ELSE /\ Len(messages) + Len(groupMessages) < MaxRows
                 /\ messages' = CreateChatMessage(messages, chatID, userID, now)
                 /\ published' =
                        published \cup {MessageEvent("chat", chatID, Len(messages) + 1)}
                 /\ Respond("post", StatusCreated, <<messages'[Len(messages) + 1]>>)
                 /\ UNCHANGED <<groupTables, chats, groupMessages>>

\* a send that treats a failed unhide as a storage error: it stops there,
\* broadcasts nothing and answers 500
PostChatMessageStorage_UnhideChecked(userID, chatID, now, stored, unhid1, unhid2) ==
    IF GetChat(chatID) = 0
    THEN Respond("post", StatusNotFound, <<>>) /\ UNCHANGED <<storeVars, published>>
    ELSE IF ~isChatParticipant(chatID, userID)
    THEN Respond("post", StatusForbidden, <<>>) /\ UNCHANGED <<storeVars, published>>
    ELSE IF ~stored
    THEN /\ Respond("post", StatusInternalServerError, <<>>)
         /\ UNCHANGED <<storeVars, published>>
    ELSE /\ Len(messages) + Len(groupMessages) < MaxRows
         /\ messages' = CreateChatMessage(messages, chatID, userID, now)
         /\ chatVisibility' =
                LET first == IF unhid1
                             THEN UnhideChatForUser(chatVisibility, chatID,
                                                    chats[chatID].user1_id)
                             ELSE chatVisibility
                IN  IF unhid1 /\ unhid2
                    THEN UnhideChatForUser(first, chatID, chats[chatID].user2_id)
                    ELSE first
         /\ IF unhid1 /\ unhid2
            THEN /\ published' =
                        published \cup {MessageEvent("chat", chatID, Len(messages) + 1)}
                 /\ Respond("post", StatusCreated, <<messages'[Len(messages) + 1]>>)
            ELSE /\ published' = published
                 /\ Respond("post", StatusInternalServerError, <<>>)
         /\ UNCHANGED <<groupTables, chats, groupMessages>>

\* ChatHandler.PostChatMessage over a store whose statements can fail: stored
\* is the outcome of the INSERT, unhid1 and unhid2 the outcomes of the two
\* UnhideChatForUser calls, whose errors the handler drops
PostChatMessageStorage(userID, chatID, now, stored, unhid1, unhid2) ==
    IF GetChat(chatID) = 0
    THEN Respond("post", StatusNotFound, <<>>) /\ UNCHANGED <<storeVars, published>>
    ELSE IF ~isChatParticipant(chatID, userID)
    THEN Respond("post", StatusForbidden, <<>>) /\ UNCHANGED <<storeVars, published>>
    ELSE IF ~stored
    THEN /\ Respond("post", StatusInternalServerError, <<>>)
         /\ UNCHANGED <<storeVars, published>>
    ELSE /\ Len(messages) + Len(groupMessages) < MaxRows
         /\ messages' = CreateChatMessage(messages, chatID, userID, now)
         /\ chatVisibility' =
                LET first == IF unhid1
                             THEN UnhideChatForUser(chatVisibility, chatID,
                                                    chats[chatID].user1_id)
                             ELSE chatVisibility
                IN  IF unhid2
                    THEN UnhideChatForUser(first, chatID, chats[chatID].user2_id)
                    ELSE first
         /\ published' = published \cup {MessageEvent("chat", chatID, Len(messages) + 1)}
         /\ Respond("post", StatusCreated, <<messages'[Len(messages) + 1]>>)
         /\ UNCHANGED <<groupTables, chats, groupMessages>>

\* GroupHandler.PostGroupMessage over a store whose INSERT can fail
PostGroupMessageStorage(userID, groupID, now, stored) ==
    IF ~IsMember(groupID, userID)
    THEN Respond("groupPost", StatusForbidden, <<>>) /\ UNCHANGED <<storeVars, published>>
    ELSE IF ~stored
    THEN /\ Respond("groupPost", StatusInternalServerError, <<>>)
         /\ UNCHANGED <<storeVars, published>>
    ELSE /\ Len(messages) + Len(groupMessages) < MaxRows
         /\ groupMessages' = CreateGroupMessage(groupMessages, groupID, userID, now)
         /\ published' =
                published \cup {MessageEvent("group", groupID, Len(groupMessages) + 1)}
         /\ Respond("groupPost", StatusCreated, <<groupMessages'[Len(groupMessages) + 1]>>)
         /\ UNCHANGED <<groupTables, chats, chatVisibility, messages>>

\* the outcomes of the three statements of a send: the INSERT fails (the other
\* two are not reached), or it succeeds and each unhide succeeds or fails
StorageOutcomes ==
    {<<FALSE, FALSE, FALSE>>} \cup {<<TRUE, a, b>> : a, b \in BOOLEAN}

\* a send that is refused before its INSERT has one outcome
OutcomesFor(userID, chatID) ==
    IF GetChat(chatID) # 0 /\ isChatParticipant(chatID, userID)
    THEN StorageOutcomes
    ELSE {<<TRUE, TRUE, TRUE>>}

\* a REST handler that runs on its own goroutine and calls no Broadcast* over
\* a room with connections
NoHub == UNCHANGED <<hub, sock, thr, wsEvents, wsActive, fatal>>

NextChats ==
    \/ \E t \in Threads, r \in StartRequests :
          LowestIdle(t) /\ StartChatSelect(t, r[1], r[2], r[3])
    \/ \E t \in Threads : StartChatInsert(t)
    \/ \E u \in Users, c \in ChatIDs : \E o \in OutcomesFor(u, c) :
          PostChatMessageStorage(u, c, Now, o[1], o[2], o[3]) /\ NoHub
    \/ \E u \in Senders, g \in PostGroupIDs, stored \in BOOLEAN :
          PostGroupMessageStorage(u, g, Now, stored) /\ NoHub
    \/ \E u \in Users, c \in ChatIDs : DeleteChatForMe(u, c) /\ NoHub
    \/ \E u \in Users : ListChatsHandler(u) /\ NoHub

SpecChats == Init /\ [][NextChats]_vars

(* ------------- SpecStart: start-chat over a store that can fail -------- *)

\* a start-chat that resets the hidden flag of the caller only
StartChatStorage_CallerOnly(userID, friendID, friends, selected, inserted, unhid1, unhid2) ==
    IF ~friends
    THEN Respond("start", StatusForbidden, <<>>) /\ UNCHANGED <<storeVars, published>>
    ELSE IF userID = friendID
    THEN Respond("start", StatusBadRequest, <<>>) /\ UNCHANGED <<storeVars, published>>
    ELSE IF ~selected
    THEN /\ Respond("start", StatusInternalServerError, <<>>)
         /\ UNCHANGED <<storeVars, published>>
    ELSE LET p == SortPair(userID, friendID)
             found == SelectChat(p[1], p[2])
             id == IF found # 0 THEN found ELSE Len(chats) + 1
         IN  IF found = 0 /\ ~inserted
             THEN /\ Respond("start", StatusInternalServerError, <<>>)
                  /\ UNCHANGED <<storeVars, published>>
             ELSE /\ chats' = IF found # 0 THEN chats
                               ELSE Append(chats, [user1_id |-> p[1], user2_id |-> p[2]])
                  /\ chatVisibility' =
                         IF unhid1 THEN UnhideChatForUser(chatVisibility, id, userID)
                         ELSE chatVisibility
                  /\ IF unhid1
                     THEN Respond("start", StatusOK, <<id>>)
                     ELSE Respond("start", StatusInternalServerError, <<>>)
                  /\ UNCHANGED <<groupTables, messages, groupMessages, published>>

\* ChatHandler.StartChat and ChatRepo.CreateOrGetChat, one request at a time,
\* over a store whose statements can fail: selected is the outcome of the
\* SELECT (FALSE: an error other than sql.ErrNoRows), inserted that of the
\* INSERT, unhid1 and unhid2 those of the two UnhideChatForUser calls. Each
\* statement commits by itself, and the first error ends the function.
StartChatStorage(userID, friendID, friends, selected, inserted, unhid1, unhid2) ==
    IF ~friends
    THEN Respond("start", StatusForbidden, <<>>) /\ UNCHANGED <<storeVars, published>>
    ELSE IF userID = friendID
    THEN Respond("start", StatusBadRequest, <<>>) /\ UNCHANGED <<storeVars, published>>
    ELSE IF ~selected
    THEN /\ Respond("start", StatusInternalServerError, <<>>)
         /\ UNCHANGED <<storeVars, published>>
    ELSE LET p == SortPair(userID, friendID)
             found == SelectChat(p[1], p[2])
             id == IF found # 0 THEN found ELSE Len(chats) + 1
         IN  IF found = 0 /\ ~inserted
             THEN /\ Respond("start", StatusInternalServerError, <<>>)
                  /\ UNCHANGED <<storeVars, published>>
             ELSE /\ chats' = IF found # 0 THEN chats
                               ELSE Append(chats, [user1_id |-> p[1], user2_id |-> p[2]])
                  /\ chatVisibility' =
                         IF ~unhid1 THEN chatVisibility
                         ELSE IF ~unhid2 THEN UnhideChatForUser(chatVisibility, id, userID)
                         ELSE UnhideChatForUser(
                                  UnhideChatForUser(chatVisibility, id, userID),
                                  id, friendID)
                  /\ IF unhid1 /\ unhid2
                     THEN Respond("start", StatusOK, <<id>>)
                     ELSE Respond("start", StatusInternalServerError, <<>>)
                  /\ UNCHANGED <<groupTables, messages, groupMessages, published>>

\* the outcomes of the four statements of a start-chat: the first error ends
\* the function, so the statements after a failed one are not reached
StartOutcomes ==
    {<<FALSE, FALSE, FALSE, FALSE>>, <<TRUE, FALSE, FALSE, FALSE>>,
     <<TRUE, TRUE, FALSE, FALSE>>, <<TRUE, TRUE, TRUE, FALSE>>,
     <<TRUE, TRUE, TRUE, TRUE>>}

NextStart ==
    \/ \E r \in StartRequests, o \in StartOutcomes :
          StartChatStorage(r[1], r[2], r[3], o[1], o[2], o[3], o[4]) /\ NoHub
    \/ \E u \in Users, c \in PostChatIDs : \E o \in OutcomesFor(u, c) :
          PostChatMessageStorage(u, c, Now, o[1], o[2], o[3]) /\ NoHub
    \/ \E u \in Users, c \in ChatIDs : DeleteChatForMe(u, c) /\ NoHub
    \/ \E u \in Users : ListChatsHandler(u) /\ NoHub

SpecStart == Init /\ [][NextStart]_vars

(* ---------------- SpecOpen: the checks of a session open ---------------- *)

\* the :chat_id / :group_id path parameters of the open requests, as
\* characters: the id in use, an id of no room, a negative number, a malformed one
ResourceParams == {<<"1">>, <<"7">>, <<"-", "1">>, <<"1", "x">>}

DigitValue ==
    ("0" :> 0) @@ ("1" :> 1) @@ ("2" :> 2) @@ ("3" :> 3) @@ ("4" :> 4)
    @@ ("5" :> 5) @@ ("6" :> 6) @@ ("7" :> 7) @@ ("8" :> 8) @@ ("9" :> 9)

RECURSIVE ParseDigits(_, _)
ParseDigits(digits, acc) ==
    IF digits = <<>> THEN acc
    ELSE ParseDigits(Tail(digits), acc * 10 + DigitValue[Head(digits)])

\* a conversion that reads the leading digits and ignores what follows them
Atoi_LeadingDigits(param) ==
    LET digits == IF param # <<>> /\ Head(param) \in {"+", "-"} THEN Tail(param)
                  ELSE param
        n == IF \E k \in DOMAIN digits : digits[k] \notin DOMAIN DigitValue
             THEN (CHOOSE k \in DOMAIN digits :
                       /\ digits[k] \notin DOMAIN DigitValue
                       /\ \A j \in 1 .. (k - 1) : digits[j] \in DOMAIN DigitValue) - 1
             ELSE Len(digits)
    IN  IF n = 0 THEN [ok |-> FALSE, n |-> 0]
        ELSE [ok |-> TRUE,
              n |-> IF Head(param) = "-" THEN 0 - ParseDigits(SubSeq(digits, 1, n), 0)
                    ELSE ParseDigits(SubSeq(digits, 1, n), 0)]

\* strconv.Atoi: an optional sign and at least one decimal digit
Atoi(param) ==
    LET digits == IF param # <<>> /\ Head(param) \in {"+", "-"} THEN Tail(param)
                  ELSE param
    IN  IF digits = <<>> \/ \E k \in DOMAIN digits : digits[k] \notin DOMAIN DigitValue
        THEN [ok |-> FALSE, n |-> 0]
        ELSE [ok |-> TRUE,
              n |-> IF Head(param) = "-" THEN 0 - ParseDigits(digits, 0)
                    ELSE ParseDigits(digits, 0)]

Bearer == <<"B", "e", "a", "r", "e", "r">>

\* the tokens the authorization authority resolves, and their users
TokenUsers == (<<"a">> :> 1) @@ (<<"b">> :> 2) @@ (<<"c">> :> 3)

\* the credentials of the open requests: Authorization header and token query
\* parameter, as characters. None; a bearer header of user 1; the query token
\* of user 2; a header without scheme next to a valid query token; a bearer
\* header with a token the authority rejects; a bearer header of user 3, who
\* is in none of the rooms in use.
Credentials ==
    {[header |-> <<>>, query |-> <<>>],
     [header |-> Bearer \o <<" ", "a">>, query |-> <<>>],
     [header |-> <<>>, query |-> <<"b">>],
     [header |-> <<"a">>, query |-> <<"b">>],
     [header |-> Bearer \o <<" ", "z">>, query |-> <<>>],
     [header |-> Bearer \o <<" ", "c">>, query |-> <<>>]}

\* token := c.GetHeader("Authorization"), else "Bearer " + c.Query("token")
Token(cred) ==
    IF cred.header # <<>> THEN cred.header
    ELSE IF cred.query # <<>> THEN Bearer \o <<" ">> \o cred.query
    ELSE <<>>

RECURSIVE Split(_, _)
\* strings.Split(s, sep) for a one-character separator
Split(str, sep) ==
    IF \E k \in DOMAIN str : str[k] = sep
    THEN LET k == CHOOSE i \in DOMAIN str :
                      str[i] = sep /\ \A j \in 1 .. (i - 1) : str[j] # sep
         IN  <<SubSeq(str, 1, k - 1)>> \o Split(SubSeq(str, k + 1, Len(str)), sep)
    ELSE <<str>>

\* AuthClient.ValidateToken: the authority's answer
ValidateToken(tok) ==
    IF tok \in DOMAIN TokenUsers THEN [ok |-> TRUE, user |-> TokenUsers[tok]]
    ELSE [ok |-> FALSE, user |-> 0]

\* ChatWebSocketHandler.validateToken / GroupWebSocketHandler.validateToken
validateToken(header) ==
    LET parts == Split(header, " ")
    IN  IF Len(parts) = 2 THEN ValidateToken(parts[2]) ELSE [ok |-> FALSE, user |-> 0]

\* chatRepo.IsParticipant / groupRepo.IsMember of the room the request names
InRoom(kind, id, userID) ==
    IF kind = "chat" THEN IsParticipant(id, userID) ELSE IsMember(id, userID)

\* a Handle that upgrades every caller with a valid token
OpenStatus_NoMembership(kind, param, cred) ==
    IF ~Atoi(param).ok THEN StatusBadRequest
    ELSE IF ~validateToken(Token(cred)).ok THEN StatusUnauthorized
    ELSE 0

\* a Handle that validates the token before it parses the id
OpenStatus_AuthFirst(kind, param, cred) ==
    IF ~validateToken(Token(cred)).ok THEN StatusUnauthorized
    ELSE IF ~Atoi(param).ok THEN StatusBadRequest
    ELSE IF ~InRoom(kind, Atoi(param).n, validateToken(Token(cred)).user)
    THEN StatusForbidden
    ELSE 0

\* the status Handle answers with before the upgrade, 0 when every check passed
OpenStatus(kind, param, cred) ==
    IF ~Atoi(param).ok THEN StatusBadRequest
    ELSE IF ~validateToken(Token(cred)).ok THEN StatusUnauthorized
    ELSE IF ~InRoom(kind, Atoi(param).n, validateToken(Token(cred)).user)
    THEN StatusForbidden
    ELSE 0

\* ChatWebSocketHandler.Handle / GroupWebSocketHandler.Handle up to the start
\* of the read loop; upgraded is the outcome of upgrader.Upgrade. After a
\* failed upgrade the handler writes nothing (status 0: what the client gets
\* is the upgrader's reply).
HandleOpen(conn, kind, param, cred, upgraded) ==
    /\ ~fatal
    /\ sock[conn].local = "new"
    /\ LET status == OpenStatus(kind, param, cred)
       IN  IF status # 0
           THEN /\ Respond("ws", status, <<>>)
                /\ UNCHANGED <<storeVars, published, hubVars>>
           ELSE IF ~upgraded
           THEN /\ Respond("ws", 0, <<>>)
                /\ UNCHANGED <<storeVars, published, hubVars>>
           ELSE OpenSession(conn, kind, Atoi(param).n, validateToken(Token(cred)).user)

\* the ways a peer ends a session
SessionPeerEvents == {"closed", "away", "failed", "lost"}

NextOpen ==
    \/ \E r \in HubStartRequests : ~fatal /\ StartChat(r[1], r[2], TRUE) /\ HubIdle
    \/ \E conn \in Conns, kind \in Kinds, param \in ResourceParams, cred \in Credentials,
          upgraded \in BOOLEAN :
              LowestNew(conn) /\ HandleOpen(conn, kind, param, cred, upgraded)
    \/ \E conn \in Conns, how \in SessionPeerEvents : PeerClose(conn, how)
    \/ \E conn \in Conns : ReadLoop(conn)

SpecOpen == Init /\ [][NextOpen]_vars

(* -------------- SpecPaths: requests with their path parameters --------- *)

\* the :message_id path parameters, as characters: the first row, a malformed one
MessageParams == {<<"1">>, <<"x">>}

\* parseIDs / parseGroupIDs: the room id is parsed first, then the message id
parseIDs(roomParam, msgParam) ==
    IF ~Atoi(roomParam).ok THEN [ok |-> FALSE, room |-> 0, msg |-> 0]
    ELSE IF ~Atoi(msgParam).ok THEN [ok |-> FALSE, room |-> 0, msg |-> 0]
    ELSE [ok |-> TRUE, room |-> Atoi(roomParam).n, msg |-> Atoi(msgParam).n]

\* c.JSON(http.StatusBadRequest, ...) and return, as the first statement of a handler
InvalidID(op) ==
    Respond(op, StatusBadRequest, <<>>) /\ UNCHANGED <<storeVars, published>>

\* the REST handlers from their first statement, the strconv.Atoi of the path
\* parameter
GetChatMessagesPath(userID, param) ==
    IF ~Atoi(param).ok THEN InvalidID("list")
    ELSE GetChatMessages(userID, Atoi(param).n)

PostChatMessagePath(userID, param, now) ==
    IF ~Atoi(param).ok THEN InvalidID("post")
    ELSE PostChatMessage(userID, Atoi(param).n, now)

DeleteMessageForMePath(userID, param, msgParam) ==
    IF ~parseIDs(param, msgParam).ok THEN InvalidID("deleteForMe")
    ELSE DeleteMessageForMe(userID, parseIDs(param, msgParam).room,
                            parseIDs(param, msgParam).msg)

DeleteMessageForAllPath(userID, param, msgParam) ==
    IF ~parseIDs(param, msgParam).ok THEN InvalidID("deleteForAll")
    ELSE DeleteMessageForAll(userID, parseIDs(param, msgParam).room,
                             parseIDs(param, msgParam).msg)

DeleteChatForMePath(userID, param) ==
    IF ~Atoi(param).ok THEN InvalidID("hide")
    ELSE DeleteChatForMe(userID, Atoi(param).n)

GetGroupMessagesPath(userID, param) ==
    IF ~Atoi(param).ok THEN InvalidID("groupList")
    ELSE GetGroupMessages(userID, Atoi(param).n)

PostGroupMessagePath(userID, param, now) ==
    IF ~Atoi(param).ok THEN InvalidID("groupPost")
    ELSE PostGroupMessage(userID, Atoi(param).n, now)

DeleteGroupMessageForAllPath(userID, param, msgParam) ==
    IF ~parseIDs(param, msgParam).ok THEN InvalidID("groupDeleteForAll")
    ELSE DeleteGroupMessageForAll(userID, parseIDs(param, msgParam).room,
                                  parseIDs(param, msgParam).msg)

\* the callers of the requests: a participant of the chat and member of the
\* group in use, and a user who is neither
PathUsers == {2, 3}

NextPaths ==
    \/ \E r \in HubStartRequests : StartChat(r[1], r[2], TRUE) /\ HubIdle
    \/ \E u \in PathUsers, p \in ResourceParams : GetChatMessagesPath(u, p) /\ HubIdle
    \/ \E u \in PathUsers, p \in ResourceParams : PostChatMessagePath(u, p, Now) /\ HubIdle
    \/ \E u \in PathUsers, p \in ResourceParams, m \in MessageParams :
          DeleteMessageForMePath(u, p, m) /\ HubIdle
    \/ \E u \in PathUsers, p \in ResourceParams, m \in MessageParams :
          DeleteMessageForAllPath(u, p, m) /\ HubIdle
    \/ \E u \in PathUsers, p \in ResourceParams : DeleteChatForMePath(u, p) /\ HubIdle
    \/ \E u \in PathUsers, p \in ResourceParams : GetGroupMessagesPath(u, p) /\ HubIdle
    \/ \E u \in PathUsers, p \in ResourceParams : PostGroupMessagePath(u, p, Now) /\ HubIdle
    \/ \E u \in PathUsers, p \in ResourceParams, m \in MessageParams :
          DeleteGroupMessageForAllPath(u, p, m) /\ HubIdle

SpecPaths == Init /\ [][NextPaths]_vars

(* ------------- SpecLock: the registry lock, statement by statement ------- *)

\* h.mu.RLock() returns when no goroutine holds the lock for writing
CanRLock(h) == h.mu.writer = 0

\* h.mu.Lock() returns when no goroutine holds the lock
CanLock(h) == h.mu.writer = 0 /\ h.mu.readers = {}

RLock(h, g) == [h EXCEPT !.mu.readers = @ \cup {g}]

RUnlock(h, g) == [h EXCEPT !.mu.readers = @ \ {g}]

Lock(h, g) == [h EXCEPT !.mu.writer = g]

Unlock(h, g) == [h EXCEPT !.mu.writer = 0]

\* Broadcast*: h.mu.RLock(); conns := h.chatRooms[chatID]
BroadcastRLock(t) ==
    /\ ~fatal
    /\ thr[t].pc = "broadcast"
    /\ CanRLock(hub)
    /\ hub' = RLock(hub, t)
    /\ thr' = [thr EXCEPT ![t].pc = "rlocked",
                          ![t].ref = RoomRef(hub, thr[t].kind, thr[t].room),
                          ![t].snap = MapKeys(hub, thr[t].kind, thr[t].room,
                                              RoomRef(hub, thr[t].kind, thr[t].room))]
    /\ published' = published \cup {thr[t].event}
    /\ UNCHANGED <<storeVars, resp, sock, wsEvents, wsActive, fatal>>

\* a Broadcast* that defers the unlock to its return
BroadcastRUnlock_Deferred(t) ==
    /\ ~fatal
    /\ thr[t].pc = "rlocked"
    /\ thr' = [thr EXCEPT ![t].pc = "range"]
    /\ UNCHANGED <<storeVars, published, resp, hub, sock, wsEvents, wsActive, fatal>>

\* Broadcast*: h.mu.RUnlock(), before the payload is built and the loop starts
BroadcastRUnlock(t) ==
    /\ ~fatal
    /\ thr[t].pc = "rlocked"
    /\ hub' = RUnlock(hub, t)
    /\ thr' = [thr EXCEPT ![t].pc = "range"]
    /\ UNCHANGED <<storeVars, published, resp, sock, wsEvents, wsActive, fatal>>

\* Remove*Client called from the loop body: h.mu.Lock() and the two deletes
RemoveClientLock(t) ==
    /\ ~fatal
    /\ thr[t].pc = "remove"
    /\ CanLock(hub)
    /\ hub' = Lock(RemoveClient(hub, thr[t].kind, thr[t].room, thr[t].cur), t)
    /\ IF thr[t].room \in DOMAIN Rooms(hub, thr[t].kind)
       THEN MapWrite(t, thr[t].kind, thr[t].room)
       ELSE fatal' = FALSE
    /\ thr' = [thr EXCEPT ![t].pc = "removing"]
    /\ UNCHANGED <<storeVars, published, resp, sock, wsEvents, wsActive>>

\* Remove*Client returns: the deferred h.mu.Unlock()
RemoveClientUnlock(t) ==
    /\ ~fatal
    /\ thr[t].pc = "removing"
    /\ hub' = Unlock(hub, t)
    /\ thr' = [thr EXCEPT ![t].pc = "wserror"]
    /\ UNCHANGED <<storeVars, published, resp, sock, wsEvents, wsActive, fatal>>

\* publishWSError calls getConnInfo: h.mu.RLock() and the lookup
getConnInfoRLock(t) ==
    /\ ~fatal
    /\ thr[t].pc = "wserror"
    /\ CanRLock(hub)
    /\ hub' = RLock(hub, t)
    /\ thr' = [thr EXCEPT ![t].pc = "getinfo"]
    /\ UNCHANGED <<storeVars, published, resp, sock, wsEvents, wsActive, fatal>>

\* a getConnInfo that returns without releasing the read lock
getConnInfoReturn_KeepsRLock(t) ==
    /\ ~fatal
    /\ thr[t].pc = "getinfo"
    /\ wsEvents' = wsEvents \cup
           {WSEvent("ws_error", thr[t].kind, thr[t].room, info, "write error") :
               info \in getConnInfo(hub, thr[t].kind, thr[t].room, thr[t].cur)}
    /\ thr' = [thr EXCEPT ![t].pc = "range"]
    /\ UNCHANGED <<storeVars, published, resp, hub, sock, fatal, wsActive>>

\* getConnInfo returns (deferred h.mu.RUnlock()) and publishWSError publishes
\* the event when the entry was found
getConnInfoReturn(t) ==
    /\ ~fatal
    /\ thr[t].pc = "getinfo"
    /\ hub' = RUnlock(hub, t)
    /\ wsEvents' = wsEvents \cup
           {WSEvent("ws_error", thr[t].kind, thr[t].room, info, "write error") :
               info \in getConnInfo(hub, thr[t].kind, thr[t].room, thr[t].cur)}
    /\ thr' = [thr EXCEPT ![t].pc = "range"]
    /\ UNCHANGED <<storeVars, published, resp, sock, fatal, wsActive>>

\* Add*Client and Remove*Client of a session take the lock, update the maps
\* and release it without any call in between: one step, once the lock is free
NextLock ==
    \/ \E r \in HubStartRequests : ~fatal /\ StartChat(r[1], r[2], TRUE) /\ HubIdle
    \/ \E conn \in Conns, u \in SessionUsers, id \in PostChatIDs :
          u = conn /\ LowestNew(conn) /\ CanLock(hub) /\ Handle(conn, "chat", id, u)
    \/ \E conn \in Conns, how \in PeerEvents : PeerClose(conn, how)
    \/ \E conn \in Conns : CanLock(hub) /\ ReadLoop(conn)
    \/ \E t \in Threads, u \in Senders, c \in PostChatIDs : LowestIdle(t) /\ PostChatMessagePersist(t, u, c)
    \/ \E t \in Threads : BroadcastRLock(t)
    \/ \E t \in Threads : BroadcastRUnlock(t)
    \/ \E t \in Threads : BroadcastRange(t)
    \/ \E t \in Threads, ok \in BOOLEAN : WriteMessage(t, ok)
    \/ \E t \in Threads : RemoveClientLock(t)
    \/ \E t \in Threads : RemoveClientUnlock(t)
    \/ \E t \in Threads : getConnInfoRLock(t)
    \/ \E t \in Threads : getConnInfoReturn(t)
    \/ \E t \in Threads : HandlerRespond(t)

SpecLock == Init /\ [][NextLock]_vars

\* the scheduler runs every goroutine that can take a step: a goroutine whose
\* next statement is a map statement, an unlock or a return takes it, one that
\* waits in Lock or RLock gets the lock once it stays free, and a read loop
\* whose read has failed detaches. No such assumption is made for
\* conn.WriteMessage: the code sets no write deadline, so a write may never
\* return.
FairSpecLock ==
    /\ SpecLock
    /\ \A t \in Threads :
          /\ WF_vars(BroadcastRLock(t))
          /\ WF_vars(BroadcastRUnlock(t))
          /\ WF_vars(BroadcastRange(t))
          /\ WF_vars(RemoveClientLock(t))
          /\ WF_vars(RemoveClientUnlock(t))
          /\ WF_vars(getConnInfoRLock(t))
          /\ WF_vars(getConnInfoReturn(t))
          /\ WF_vars(HandlerRespond(t))
    /\ \A conn \in Conns : WF_vars(CanLock(hub) /\ ReadLoop(conn))

(* ------------------------------- claims -------------------------------- *)

\* the visibility predicate of the data model: message row m is visible to v
VisibleTo(m, v) ==
    /\ m.deleted_for_all = FALSE
    /\ ~(v = m.sender_id /\ m.deleted_by_sender)
    /\ ~(v # m.sender_id /\ m.deleted_by_receiver)

\* rows is a listing of exactly the rows of ids, each once, ascending in created_at
IsListingOf(rows, ids) ==
    /\ {rows[k].id : k \in DOMAIN rows} = ids
    /\ Len(rows) = Cardinality(ids)
    /\ \A k \in DOMAIN rows : rows[k] = messages[rows[k].id]
    /\ \A j, k \in DOMAIN rows : j < k => rows[j].created_at <= rows[k].created_at

\* C1: listing a chat's messages for viewer v returns exactly the messages of
\* that chat that are not deleted for all, not deleted by the sender when v is
\* the sender and not deleted by the receiver when v is not the sender, in
\* ascending creation-time order: for every table, every chat and every viewer,
\* and so for the body of every successful listing response.
C1_ListingIsVisibilityPredicate ==
    /\ \A c \in ChatIDs, v \in Users :
          \A rows \in GetChatMessagesForUser(messages, c, v) :
              IsListingOf(rows, {i \in DOMAIN messages :
                                    messages[i].chat_id = c /\ VisibleTo(messages[i], v)})
    /\ (resp.op = "list" /\ resp.status = StatusOK) =>
          \E c \in ChatIDs, v \in Users :
              /\ IsParticipant(c, v)
              /\ IsListingOf(resp.body, {i \in DOMAIN messages :
                                    messages[i].chat_id = c /\ VisibleTo(messages[i], v)})

\* a listing was answered that shows the later-inserted row first (its
\* created_at is earlier) while the table holds no other row of that chat
\* visible to the same viewer, and one that hides a row by a one-sided flag
C1_Witness ==
    /\ resp.op = "list" /\ resp.status = StatusOK
    /\ Len(resp.body) = 2
    /\ resp.body[1].id = 2 /\ resp.body[2].id = 1
    /\ resp.body[1].created_at < resp.body[2].created_at
    /\ resp.body[1].deleted_by_sender /\ resp.body[2].deleted_by_receiver

\* message i is in no listing of any chat for any viewer
InNoListing(msgs, i) ==
    \A c \in ChatIDs, v \in Users :
        \A rows \in GetChatMessagesForUser(msgs, c, v) :
            \A k \in DOMAIN rows : rows[k].id # i

\* C2: once a message's deleted_for_all flag is true, the flag stays true and
\* the message is in no viewer's listing, in that state and after every later
\* step (send, delete-for-me, delete-for-all, hide, start-chat), whatever the
\* two one-sided flags are.
C2_DeletedForAllStaysInvisible ==
    /\ [](\A i \in DOMAIN messages :
             messages[i].deleted_for_all => InNoListing(messages, i))
    /\ [][\A i \in DOMAIN messages :
             messages[i].deleted_for_all =>
                 i \in DOMAIN messages' /\ messages'[i].deleted_for_all]_vars

\* a participant listed the chat after message 1 was deleted for all with both
\* one-sided flags still false, and got only message 2
C2_Witness ==
    /\ Len(messages) = 2
    /\ messages[1].chat_id = messages[2].chat_id
    /\ messages[1].deleted_for_all
    /\ ~messages[1].deleted_by_sender /\ ~messages[1].deleted_by_receiver
    /\ resp.op = "list" /\ resp.status = StatusOK
    /\ resp.body = <<messages[2]>>

\* C3: the visibility flags are monotonic: a row is inserted with every flag
\* false, no step removes a row, and no step changes a flag from true to false
\* (three flags of a private message, deleted_for_all of a group message).
C3_FlagsMonotonic ==
    [][/\ \A i \in DOMAIN messages :
             /\ i \in DOMAIN messages'
             /\ messages[i].deleted_by_sender => messages'[i].deleted_by_sender
             /\ messages[i].deleted_by_receiver => messages'[i].deleted_by_receiver
             /\ messages[i].deleted_for_all => messages'[i].deleted_for_all
       /\ \A i \in (DOMAIN messages') \ (DOMAIN messages) :
             /\ ~messages'[i].deleted_by_sender
             /\ ~messages'[i].deleted_by_receiver
             /\ ~messages'[i].deleted_for_all
       /\ \A i \in DOMAIN groupMessages :
             /\ i \in DOMAIN groupMessages'
             /\ groupMessages[i].deleted_for_all => groupMessages'[i].deleted_for_all
       /\ \A i \in (DOMAIN groupMessages') \ (DOMAIN groupMessages) :
             ~groupMessages'[i].deleted_for_all]_vars

\* a private message carries all three flags and a group message its one flag
C3_Witness ==
    /\ \E i \in DOMAIN messages :
          /\ messages[i].deleted_by_sender
          /\ messages[i].deleted_by_receiver
          /\ messages[i].deleted_for_all
    /\ \E i \in DOMAIN groupMessages : groupMessages[i].deleted_for_all

\* the step is a chat delete-for-all request of userID who did not send the
\* existing message
NonSenderChatRequest(userID, chatID, messageID) ==
    /\ messageID \in DOMAIN messages
    /\ messages[messageID].sender_id # userID
    /\ DeleteMessageForAll(userID, chatID, messageID)

NonSenderGroupRequest(userID, groupID, messageID) ==
    /\ messageID \in DOMAIN groupMessages
    /\ groupMessages[messageID].sender_id # userID
    /\ DeleteGroupMessageForAll(userID, groupID, messageID)

\* C4 as stated: every delete-for-all request by an actor who is not the sender
\* of the message is answered Forbidden, changes no flag and broadcasts nothing
\* (private and group messages).
C4_NonSenderForbidden ==
    [][/\ resp'.op = "deleteForAll" =>
             \A u \in Users, c \in ChatIDs, m \in MessageIDs :
                 NonSenderChatRequest(u, c, m) =>
                     /\ resp'.status = StatusForbidden
                     /\ messages' = messages /\ published' = published
       /\ resp'.op = "groupDeleteForAll" =>
             \A u \in Users, g \in GroupIDs, m \in MessageIDs :
                 NonSenderGroupRequest(u, g, m) =>
                     /\ resp'.status = StatusForbidden
                     /\ groupMessages' = groupMessages /\ published' = published]_vars

\* C4 as amended: such a request changes no flag and broadcasts nothing in
\* every case, and it is answered Forbidden when the request names the room the
\* message belongs to (a message of another room is refused before the sender
\* is looked at).
C4_NonSenderLeavesFlags ==
    [][/\ resp'.op = "deleteForAll" =>
             \A u \in Users, c \in ChatIDs, m \in MessageIDs :
                 NonSenderChatRequest(u, c, m) =>
                     /\ messages' = messages /\ published' = published
                     /\ resp'.status # StatusNoContent
                     /\ messages[m].chat_id = c => resp'.status = StatusForbidden
       /\ resp'.op = "groupDeleteForAll" =>
             \A u \in Users, g \in GroupIDs, m \in MessageIDs :
                 NonSenderGroupRequest(u, g, m) =>
                     /\ groupMessages' = groupMessages /\ published' = published
                     /\ resp'.status # StatusNoContent
                     /\ groupMessages[m].group_id = g => resp'.status = StatusForbidden]_vars

\* a delete-for-all request was answered Forbidden while the only message is
\* undeleted, sent by user 1 in the chat of users 1 and 2 (chat 1), so by the
\* other participant or by an outsider
C4_Witness ==
    /\ resp.op = "deleteForAll" /\ resp.status = StatusForbidden
    /\ Len(messages) = 1 /\ Len(chats) = 1
    /\ chats[1] = [user1_id |-> 1, user2_id |-> 2]
    /\ messages[1].sender_id = 1
    /\ ~messages[1].deleted_for_all

\* the state event e tells of is in the store: the row exists in the room the
\* event names, and is flagged deleted_for_all when e is a deletion
Committed(e) ==
    IF e.kind = "chat"
    THEN /\ e.id \in DOMAIN messages
         /\ messages[e.id].chat_id = e.room
         /\ e.type = "delete_for_all" => messages[e.id].deleted_for_all
    ELSE /\ e.id \in DOMAIN groupMessages
         /\ groupMessages[e.id].group_id = e.room
         /\ e.type = "delete_for_all" => groupMessages[e.id].deleted_for_all

\* C5: persist-then-broadcast: every event handed to a Broadcast* call, being
\* written to a connection or already written to one tells of a state that is
\* committed in the store: a message event of a created row, a delete_for_all
\* event of a row whose deleted_for_all flag is set.
C5_PersistThenBroadcast ==
    /\ \A e \in published : Committed(e)
    /\ \A t \in Threads : thr[t].pc \notin {"idle", "done"} => Committed(thr[t].event)
    /\ \A c \in Conns : \A k \in DOMAIN sock[c].log : Committed(sock[c].log[k])

\* connection 1 of chat 1 was sent the message event of message 1 and then its
\* delete_for_all event
C5_Witness ==
    sock[1].log = <<MessageEvent("chat", 1, 1), DeletionEvent("chat", 1, 1)>>

\* C6 as stated: no two request goroutines are inside conn.WriteMessage on the
\* same connection at the same time.
C6_WritesSerialized ==
    \A c \in Conns :
        Cardinality({t \in Threads : thr[t].pc = "write" /\ thr[t].cur = c}) <= 1

\* C7 as stated: a publish writes to exactly the connections that were in the
\* room when it read the room under the read lock, and no write to the room's
\* set by another goroutine meets its reads (such a meeting is what can end
\* in the runtime's fatal error).
C7_PublishUsesSnapshot ==
    /\ \A t \in Threads : thr[t].pc = "respond" => thr[t].seen = thr[t].snap
    /\ ~fatal

\* C8 as stated: a connection that was sent two message events was sent them
\* in the order in which the rows were inserted (ids are handed out by the
\* INSERTs, one at a time).
C8_PersistOrderIsDeliveryOrder ==
    \A c \in Conns : \A i, j \in DOMAIN sock[c].log :
        (/\ i < j
         /\ sock[c].log[i].type = "message"
         /\ sock[c].log[j].type = "message")
            => sock[c].log[i].id < sock[c].log[j].id

\* the frame of event e was written to connection c
Delivered(c, e) == \E k \in DOMAIN sock[c].log : sock[c].log[k] = e

\* connection c is in the room set of its room
Registered(c) ==
    /\ sock[c].room \in DOMAIN Rooms(hub, sock[c].kind)
    /\ c \in Rooms(hub, sock[c].kind)[sock[c].room].keys

\* C9: a Broadcast* call over a room with failing connections: when its loop
\* is over, every connection it wrote to without an error has the event, every
\* connection whose write failed is closed and out of the registry, a
\* connection of the snapshot it did not write to had left the room by itself
\* (a failure ended nothing), a connection whose read loop runs and on which no
\* write failed is open and registered (only failing ones are pruned), and the
\* handler then answers 201 (send) or 204 (delete).
C9_FailuresAreIsolated ==
    /\ [](\A t \in Threads : thr[t].pc = "respond" =>
             /\ \A c \in thr[t].seen \ thr[t].failed : Delivered(c, thr[t].event)
             /\ \A c \in thr[t].failed :
                   /\ sock[c].local = "closed"
                   /\ ~Registered(c)
                   /\ getConnInfo(hub, sock[c].kind, sock[c].room, c) = {}
             /\ \A c \in thr[t].snap \ thr[t].seen : ~Registered(c))
    /\ [](\A c \in Conns :
             (sock[c].loop /\ ~sock[c].writeFailed) =>
                 sock[c].local = "open" /\ Registered(c))
    /\ [][\A t \in Threads :
             (thr[t].pc = "respond" /\ thr'[t].pc = "done") =>
                 /\ resp'.op = thr[t].op
                 /\ resp'.status =
                        (IF thr[t].op \in {"post", "groupPost"} THEN StatusCreated
                         ELSE StatusNoContent)]_vars

\* one send, answered 201: the write to connection 1 failed, connection 1 is
\* closed and out of the registry, connection 2 got the event and stays
C9_Witness ==
    /\ thr[1] = Done /\ thr[2] = Idle
    /\ resp.op = "post" /\ resp.status = StatusCreated
    /\ sock[1].writeFailed /\ sock[1].local = "closed" /\ ~Registered(1)
    /\ sock[1].kind = "chat" /\ sock[2].kind = "chat"
    /\ Delivered(2, MessageEvent("chat", 1, 1))
    /\ sock[2].local = "open" /\ Registered(2)

\* C10 as stated: once the loop body of a failed write is through, a ws_error
\* event with the connection's id and user and the write error as reason has
\* been published, the connection is closed and out of the registry.
C10_WriteFailureEmitsWSError ==
    \A t \in Threads : \A c \in thr[t].failed :
        (thr[t].cur = c /\ thr[t].pc \in {"remove", "wserror"})
        \/ /\ sock[c].local = "closed"
           /\ ~Registered(c)
           /\ \E e \in wsEvents :
                 /\ e.event = "ws_error"
                 /\ e.conn_id = c /\ e.user_id = sock[c].user
                 /\ e.reason = "write error"

\* the connection-info map of a kind
Infos(h, kind) == IF kind = "chat" THEN h.chatConnInfo ELSE h.groupConnInfo

\* C11: no ghost rooms: no room key of the registry maps to an empty
\* connection set (rooms and connection infos, chat and group), and the set
\* holds only connections of that room whose session has not detached them, so
\* a room all of whose connections have been detached again has no entry.
C11_NoGhostRooms ==
    \A kind \in Kinds :
        /\ \A id \in DOMAIN Rooms(hub, kind) : Rooms(hub, kind)[id].keys # {}
        /\ \A id \in DOMAIN Infos(hub, kind) : DOMAIN Infos(hub, kind)[id] # {}
        /\ \A id \in DOMAIN Rooms(hub, kind) : \A c \in Rooms(hub, kind)[id].keys :
              sock[c].kind = kind /\ sock[c].room = id /\ sock[c].loop

\* two connections were attached to chat 1 and both were detached again, one
\* after a failed write and one by its read loop: the registry is empty
C11_Witness ==
    /\ \A c \in Conns :
          sock[c].kind = "chat" /\ sock[c].room = 1 /\ sock[c].local = "closed"
          /\ ~sock[c].loop
    /\ sock[1].writeFailed /\ ~sock[2].writeFailed
    /\ hub = NewHub

\* connection c is in the room set or the info map of (kind, id)
Attached(h, kind, id, c) ==
    \/ id \in DOMAIN Rooms(h, kind) /\ c \in Rooms(h, kind)[id].keys
    \/ id \in DOMAIN Infos(h, kind) /\ c \in DOMAIN Infos(h, kind)[id]

\* the room ids a detach may name: the rooms in use and one that never had an entry
DetachIDs == PostChatIDs \cup PostGroupIDs \cup {3}

\* C12: detach is idempotent: in every registry the program reaches, detaching
\* a connection that is not attached to the room (never attached, already
\* detached, no entry for the room) leaves the whole registry unchanged, and
\* detaching twice gives the registry of detaching once; and every detach the
\* program makes of a connection that is not attached (the read loop's after
\* the broadcast's, or the other way round) changes nothing in the registry.
C12_DetachIdempotent ==
    /\ [](\A kind \in Kinds, id \in DetachIDs, c \in Conns :
             /\ ~Attached(hub, kind, id, c) => RemoveClient(hub, kind, id, c) = hub
             /\ RemoveClient(RemoveClient(hub, kind, id, c), kind, id, c)
                    = RemoveClient(hub, kind, id, c))
    /\ [][/\ \A c \in Conns :
                (sock[c].loop /\ ~sock'[c].loop
                    /\ ~Attached(hub, sock[c].kind, sock[c].room, c)) => hub' = hub
          /\ \A t \in Threads :
                (thr[t].pc = "remove" /\ thr'[t].pc # "remove"
                    /\ ~Attached(hub, thr[t].kind, thr[t].room, thr[t].cur)) => hub' = hub]_vars

\* connection 1 was detached by the broadcast after a failed write and again
\* by its read loop, while connection 2 of the same room stays attached
C12_Witness ==
    /\ sock[1].writeFailed /\ ~sock[1].loop /\ sock[1].local = "closed"
    /\ \E t \in Threads : thr[t].pc = "respond" /\ 1 \in thr[t].failed
    /\ sock[2].kind = sock[1].kind /\ sock[2].room = sock[1].room
    /\ Attached(hub, sock[2].kind, sock[2].room, 2)
    /\ ~Attached(hub, sock[1].kind, sock[1].room, 1)

\* goroutine g holds the registry lock, for reading or for writing
HoldsLock(g) == g \in hub.mu.readers \/ hub.mu.writer = g

\* C13: the registry lock is never held across outbound I/O: a goroutine that
\* is inside conn.WriteMessage, or that has closed the connection after a
\* failed write and not yet called Remove*Client, holds the lock neither for
\* reading nor for writing; a goroutine holds the lock only between a Lock /
\* RLock and its Unlock / RUnlock around the map statements; and no step in
\* which a frame is written or a connection is closed starts or ends with the
\* writing goroutine holding the lock.
C13_NoLockAcrossIO ==
    /\ [](\A t \in Threads :
             /\ thr[t].pc \in {"write", "remove"} => ~HoldsLock(t)
             /\ HoldsLock(t) => thr[t].pc \in {"rlocked", "removing", "getinfo"})
    /\ [](hub.mu.writer # 0 => hub.mu.readers = {})
    /\ [][\A t \in Threads :
             (thr[t].pc = "write" /\ thr'[t].pc # "write") =>
                 ~HoldsLock(t) /\ ~(t \in hub'.mu.readers \/ hub'.mu.writer = t)]_vars

\* goroutine 1 is inside conn.WriteMessage while goroutine 2 holds the lock
\* for writing inside RemoveChatClient
C13_Witness ==
    /\ thr[1].pc = "write"
    /\ thr[2].pc = "removing" /\ hub.mu.writer = 2

\* the step writes the response of a request of kind op (a step that takes a
\* start-chat request from its SELECT to its INSERT writes none)
Answers(op) ==
    /\ resp'.op = op
    /\ \A t \in Threads : thr'[t].pc = "insert" => thr[t].pc = "insert"

\* chat c is in the chat list ListChats returns to user u
Listed(rows, vis, u, c) ==
    LET list == ListChats(rows, vis, u)
    IN  \E k \in DOMAIN list : list[k].ChatID = c

\* the step is a successful hide of chat c by u: u's list without c after it
HideHides ==
    (Answers("hide") /\ resp'.status = StatusNoContent) =>
        \A u \in Users, c \in ChatIDs :
            DeleteChatForMe(u, c) => ~Listed(chats', chatVisibility', u, c)

\* a chat leaves a list only by a hide and comes back only by a send or a start
ListChangesOnlyByRequest ==
    (chatVisibility' # chatVisibility) =>
        \A u \in Users, c \in DOMAIN chats :
            /\ (Listed(chats, chatVisibility, u, c) /\ ~Listed(chats', chatVisibility', u, c))
                  => Answers("hide")
            /\ (~Listed(chats, chatVisibility, u, c) /\ Listed(chats', chatVisibility', u, c))
                  => Answers("post") \/ Answers("start")

StartStep(userID, friendID) ==
    \/ \E t \in Threads : StartChatSelect(t, userID, friendID, TRUE) /\ resp'.op = "start"
    \/ \E t \in Threads :
          thr[t].pc = "insert" /\ thr[t].body = <<userID, friendID>> /\ StartChatInsert(t)

\* C15: at most one chats row exists per unordered pair of users, stored with
\* the smaller user id first; rows are never changed or removed, and every
\* start-chat that succeeds returns the id of the one row of its pair, so two
\* starts of the same two users (in either argument order) return the same
\* id; a start that finds no row and whose INSERT meets the row of a
\* concurrent start fails without a second row; a start of a user with
\* themselves fails without creating a row.
C15_OneChatPerPair ==
    /\ [](\A i, j \in DOMAIN chats :
             /\ chats[i].user1_id < chats[i].user2_id
             /\ i # j => {chats[i].user1_id, chats[i].user2_id}
                            # {chats[j].user1_id, chats[j].user2_id})
    /\ [][/\ \A i \in DOMAIN chats : i \in DOMAIN chats' /\ chats'[i] = chats[i]
          /\ Answers("start") =>
                \A u, f \in Users :
                    StartStep(u, f) =>
                        /\ u = f => resp'.status = StatusBadRequest /\ chats' = chats
                        /\ u # f =>
                              /\ resp'.status \in {StatusOK, StatusInternalServerError}
                              /\ resp'.status = StatusOK =>
                                    /\ resp'.body[1] \in DOMAIN chats'
                                    /\ {chats'[resp'.body[1]].user1_id,
                                        chats'[resp'.body[1]].user2_id} = {u, f}
                              /\ resp'.status = StatusInternalServerError =>
                                    /\ chats' = chats
                                    /\ \E i \in DOMAIN chats :
                                          {chats[i].user1_id, chats[i].user2_id} = {u, f}
                                    /\ \E t \in Threads : thr[t].pc = "insert"]_vars

\* the chats of users 1, 2 and of users 1, 3 exist and a start-chat was then
\* answered with the id of the first: a repeated start of users 1 and 2
C15_Witness ==
    /\ Len(chats) = 2
    /\ chats[1] = [user1_id |-> 1, user2_id |-> 2]
    /\ resp.op = "start" /\ resp.status = StatusOK /\ resp.body = <<1>>

\* C20: a send whose INSERT fails is answered with the storage error (500) and
\* nothing else happens: no row is added, no chat is unhidden for anyone, no
\* Broadcast* call is made and no frame is written to a connection (private
\* and group messages); and a send that added no row was not answered Created.
C20_FailedPersistDoesNothing ==
    [][/\ ((Answers("post") \/ Answers("groupPost"))
              /\ resp'.status = StatusInternalServerError) =>
             UNCHANGED <<chats, chatVisibility, messages, groupMessages, published,
                         hub, sock, wsEvents>>
       /\ Answers("post") =>
             \A u \in Users, c \in ChatIDs :
                 (/\ GetChat(c) # 0
                  /\ isChatParticipant(c, u)
                  /\ PostChatMessageStorage(u, c, Now, FALSE, FALSE, FALSE)) =>
                         /\ resp'.status = StatusInternalServerError
                         /\ UNCHANGED <<storeVars, published, sock>>
       /\ Answers("groupPost") =>
             \A u \in Users, g \in PostGroupIDs :
                 (IsMember(g, u) /\ PostGroupMessageStorage(u, g, Now, FALSE)) =>
                         /\ resp'.status = StatusInternalServerError
                         /\ UNCHANGED <<storeVars, published, sock>>
       /\ (Answers("post") /\ messages' = messages) => resp'.status # StatusCreated
       /\ (Answers("groupPost") /\ groupMessages' = groupMessages)
             => resp'.status # StatusCreated]_vars

\* a send in chat 1 was answered 500 while the chat is hidden for user 1 and
\* the table holds the one earlier message
C20_Witness ==
    /\ resp.op = "post" /\ resp.status = StatusInternalServerError
    /\ Len(chats) = 1 /\ Len(messages) = 1
    /\ <<1, 1>> \in DOMAIN chatVisibility /\ chatVisibility[<<1, 1>>] = TRUE
    /\ published = {MessageEvent("chat", 1, 1)}

\* the open requests' path parameters that are well-formed identifiers, and
\* the identifier each denotes
WellFormedIDs == (<<"1">> :> 1) @@ (<<"7">> :> 7) @@ (<<"-", "1">> :> (0 - 1))

\* the user the authority resolves the credential of an open request to: the
\* bearer header of user 1 or 3, the query token of user 2; the others carry
\* no credential or one that is not valid
ResolvedUsers ==
    ([header |-> Bearer \o <<" ", "a">>, query |-> <<>>] :> 1)
    @@ ([header |-> <<>>, query |-> <<"b">>] :> 2)
    @@ ([header |-> Bearer \o <<" ", "c">>, query |-> <<>>] :> 3)

\* user u is a participant of chat id / a member of group id
BelongsTo(kind, id, u) ==
    IF kind = "chat"
    THEN id \in DOMAIN chats /\ u \in {chats[id].user1_id, chats[id].user2_id}
    ELSE id \in DOMAIN GroupMembers /\ u \in GroupMembers[id]

\* C16: a connection is handed out by the upgrader and attached to the
\* registry for room (kind, id) only for an open request whose credential the
\* authority resolved to a user id and whose user is a participant of the
\* chat / a member of the group: every connection that exists belongs to
\* such a user, only existing connections are registered, and the step that
\* creates a connection is the open of a request with a well-formed id, a
\* resolved credential and a member, which attaches it under that id and user.
C16_AttachOnlyAfterChecks ==
    /\ [](\A c \in Conns :
             /\ sock[c].local # "new" =>
                   /\ sock[c].user \in Users
                   /\ BelongsTo(sock[c].kind, sock[c].room, sock[c].user)
             /\ \A kind \in Kinds : \A id \in DOMAIN Rooms(hub, kind) :
                   c \in Rooms(hub, kind)[id].keys =>
                       /\ sock[c].local # "new"
                       /\ sock[c].kind = kind /\ sock[c].room = id)
    /\ [][\A c \in Conns :
             (sock[c].local = "new" /\ sock'[c].local # "new") =>
                 \E kind \in Kinds, param \in DOMAIN WellFormedIDs,
                    cred \in DOMAIN ResolvedUsers :
                     /\ HandleOpen(c, kind, param, cred, TRUE)
                     /\ BelongsTo(kind, WellFormedIDs[param], ResolvedUsers[cred])
                     /\ sock'[c].kind = kind
                     /\ sock'[c].room = WellFormedIDs[param]
                     /\ sock'[c].user = ResolvedUsers[cred]
                     /\ Attached(hub', kind, WellFormedIDs[param], c)]_vars

\* connection 1 is attached to chat 1 for user 2 (resolved from the query
\* token), and a later open request was refused as Forbidden
C16_Witness ==
    /\ Registered(1) /\ sock[1].kind = "chat" /\ sock[1].room = 1 /\ sock[1].user = 2
    /\ sock[2].local = "new"
    /\ resp.op = "ws" /\ resp.status = StatusForbidden

\* C17: the checks of a session open run in a fixed order and the first
\* failing one decides: a malformed id is answered BadRequest whatever the
\* credential; else a missing or invalid credential is answered Unauthorized
\* whatever the membership; else a non-participant / non-member is answered
\* Forbidden; else a failed handshake ends the request without a response of
\* the handler; in all four cases no connection is created or attached and no
\* event is emitted.
C17_OpenChecksInOrder ==
    [][resp'.op = "ws" =>
          \A c \in Conns, kind \in Kinds, param \in ResourceParams, cred \in Credentials,
             upgraded \in BOOLEAN :
              HandleOpen(c, kind, param, cred, upgraded) =>
                  IF param \notin DOMAIN WellFormedIDs
                  THEN resp'.status = StatusBadRequest /\ UNCHANGED hubVars
                  ELSE IF cred \notin DOMAIN ResolvedUsers
                  THEN resp'.status = StatusUnauthorized /\ UNCHANGED hubVars
                  ELSE IF ~BelongsTo(kind, WellFormedIDs[param], ResolvedUsers[cred])
                  THEN resp'.status = StatusForbidden /\ UNCHANGED hubVars
                  ELSE IF ~upgraded
                  THEN resp'.status = 0 /\ UNCHANGED hubVars
                  ELSE Attached(hub', kind, WellFormedIDs[param], c)]_vars

\* an open request was answered BadRequest, nothing is attached and no event
\* was emitted, while chat 1 exists
C17_Witness ==
    /\ resp.op = "ws" /\ resp.status = StatusBadRequest
    /\ Len(chats) = 1
    /\ hub = NewHub /\ wsEvents = {}
    /\ \A c \in Conns : sock[c].local = "new"

\* the lifecycle event of connection c on room (kind, id)
Lifecycle(name, c, reason) ==
    [event |-> name, kind |-> sock[c].kind, resource_id |-> sock[c].room,
     conn_id |-> c, user_id |-> sock[c].user, reason |-> reason,
     duration_ms |-> "since ConnectedAt"]

\* C19: when the read loop of a connection ends, the session emits lifecycle
\* events that carry the connection's duration and the close reason: after a
\* normal or going-away close the ws_disconnect event and no ws_error event;
\* after any other read failure a ws_error event (and the ws_disconnect event
\* as well).
C19_ReadLoopEndEmitsLifecycle ==
    [][\A c \in Conns :
          (sock[c].loop /\ ~sock'[c].loop) =>
              \E reason \in {"close 1000", "close 1001", "close 1011", "read error"} :
                  /\ reason \in {"close 1000", "close 1001"} <=>
                         sock[c].peer \in {"closed", "away"}
                  /\ reason = "close 1011" <=> sock[c].peer = "failed"
                  /\ wsEvents' \ wsEvents =
                        IF reason \in {"close 1000", "close 1001"}
                        THEN {Lifecycle("ws_disconnect", c, reason)}
                        ELSE {Lifecycle("ws_error", c, reason),
                              Lifecycle("ws_disconnect", c, reason)}
                  /\ wsEvents \subseteq wsEvents']_vars

\* connection 1 ended with a going-away close and has its ws_disconnect event
\* only, connection 2 ended with a read error and has both events
C19_Witness ==
    /\ sock[1].local = "closed" /\ sock[1].peer = "away"
    /\ Lifecycle("ws_disconnect", 1, "close 1001") \in wsEvents
    /\ \A e \in wsEvents : e.conn_id = 1 => e.event # "ws_error"
    /\ sock[2].local = "closed" /\ sock[2].peer = "lost"
    /\ Lifecycle("ws_error", 2, "read error") \in wsEvents
    /\ Lifecycle("ws_disconnect", 2, "read error") \in wsEvents

\* the socket of connection c is closed or its read fails: the peer is gone or
\* conn.Close() was called on it
SocketDown(c) == sock[c].peer # "up" \/ sock[c].local = "closed"

\* the read loop of connection c has returned, c is out of its room and closed
TornDown(c) ==
    /\ ~sock[c].loop
    /\ ~Registered(c)
    /\ sock[c].local = "closed"

\* C18: under fair scheduling of the read loop goroutines, every attached
\* connection whose read fails or whose socket is closed (by the peer, or by
\* the broadcast engine after a failed write) eventually has its read loop
\* ended, is out of its room and is closed, and stays so; the process stopped
\* by the runtime is the only other outcome.
C18_DownConnectionIsTornDown ==
    \A c \in Conns :
        (sock[c].loop /\ SocketDown(c)) ~> ([](TornDown(c)) \/ fatal)

\* connection 2 was closed by the broadcast engine after a failed write and
\* connection 1 lost its peer; both read loops have ended, both connections are
\* out of the registry and closed, and the process runs
C18_Witness ==
    /\ ~fatal
    /\ sock[2].writeFailed /\ TornDown(2)
    /\ sock[1].peer = "lost" /\ ~sock[1].writeFailed /\ TornDown(1)
    /\ \E e \in wsEvents : e.event = "ws_disconnect" /\ e.conn_id = 2

\* C21: a private-chat send whose INSERT succeeded and of whose two unhide
\* statements at least one failed: the persisted message is appended as it
\* was stored and no other row changes, the unhide of the other participant is
\* still made (when it succeeds the chat is not hidden for them), the message
\* event is published, and the answer is Created with the persisted message.
C21_UnhideIsBestEffort ==
    [][\A u \in Users, c \in ChatIDs, a \in BOOLEAN, b \in BOOLEAN :
          (/\ GetChat(c) # 0
           /\ isChatParticipant(c, u)
           /\ ~(a /\ b)
           /\ PostChatMessageStorage(u, c, Now, TRUE, a, b) /\ NoHub)
          => /\ messages' = CreateChatMessage(messages, c, u, Now)
             /\ a => chatVisibility'[<<c, chats[c].user1_id>>] = FALSE
             /\ b => chatVisibility'[<<c, chats[c].user2_id>>] = FALSE
             /\ \A q \in DOMAIN chatVisibility :
                    chatVisibility'[q] # chatVisibility[q] =>
                        q[1] = c /\ chatVisibility'[q] = FALSE
             /\ published' = published \cup {MessageEvent("chat", c, Len(messages'))}
             /\ resp' = [op |-> "post", status |-> StatusCreated,
                         body |-> <<messages'[Len(messages')]>>]
             /\ UNCHANGED <<chats, groupMessages>>]_vars

\* both participants of chat 1 had hidden it; user 1 then sent a message whose
\* unhide succeeded for user 1 and failed for user 2: the message is stored,
\* published and returned with Created
C21_Witness ==
    /\ resp.op = "post" /\ resp.status = StatusCreated
    /\ resp.body[1].chat_id = 1 /\ resp.body[1].sender_id = 1
    /\ messages[resp.body[1].id] = resp.body[1]
    /\ MessageEvent("chat", 1, resp.body[1].id) \in published
    /\ chats[1] = [user1_id |-> 1, user2_id |-> 2]
    /\ chatVisibility[<<1, 1>>] = FALSE
    /\ chatVisibility[<<1, 2>>] = TRUE

\* the answer the four checks of delete-for-all give when they are made in the
\* order: message exists, message is of the stated room, actor is the sender,
\* the update matches a row of (message id, actor)
FourChecks(u, c, m) ==
    IF m \notin DOMAIN messages THEN StatusNotFound
    ELSE IF messages[m].chat_id # c THEN StatusBadRequest
    ELSE IF messages[m].sender_id # u THEN StatusForbidden
    ELSE IF ~\E i \in DOMAIN messages : i = m /\ messages[i].sender_id = u
    THEN StatusNotFound
    ELSE StatusNoContent

\* C22: a delete-for-all request of a participant of the stated chat is
\* answered by the first failing check in the order message exists (404),
\* message is of the stated room (400), actor is the sender (403), update
\* matches a row (404); a request of any caller broadcasts the deletion event
\* only when it is answered NoContent, and every refused request leaves the
\* messages and the published events as they were.
C22_DeleteForAllChecksInOrder ==
    [][resp'.op = "deleteForAll" =>
          \A u \in Users, c \in ChatIDs, m \in MessageIDs :
              DeleteMessageForAll(u, c, m) =>
                  /\ (GetChat(c) # 0 /\ isChatParticipant(c, u))
                         => resp'.status = FourChecks(u, c, m)
                  /\ resp'.status = StatusNoContent
                         => /\ FourChecks(u, c, m) = StatusNoContent
                            /\ published' = published \cup {DeletionEvent("chat", c, m)}
                            /\ messages'[m].deleted_for_all
                  /\ resp'.status # StatusNoContent
                         => messages' = messages /\ published' = published]_vars

\* user 1, participant of chat 2, named message 1 of chat 1 under chat 2 and
\* was answered BadRequest although another user sent it; the message has no
\* flag set and no deletion event was published
C22_Witness ==
    /\ resp.op = "deleteForAll" /\ resp.status = StatusBadRequest
    /\ Len(chats) = 2 /\ chats[2] = [user1_id |-> 1, user2_id |-> 3]
    /\ Len(messages) = 1
    /\ messages[1].chat_id = 1 /\ messages[1].sender_id = 2
    /\ ~messages[1].deleted_for_all
    /\ \A e \in published : e.type # "delete_for_all"

\* the participant of chat c other than u
OtherParticipant(c, u) ==
    IF chats[c].user1_id = u THEN chats[c].user2_id ELSE chats[c].user1_id

\* C23: a delete-for-me request that is answered NoContent sets one flag of
\* the named message, deleted_by_sender when the caller sent the message and
\* deleted_by_receiver otherwise, and leaves its other two flags and every
\* other row as they were; afterwards the listing of the caller does not
\* select the message, the listing of the other participant selects it exactly
\* if it did before, and no event is published.
C23_DeleteForMeIsOneSided ==
    [][(resp'.op = "deleteForMe" /\ resp'.status = StatusNoContent) =>
          \A u \in Users, c \in ChatIDs, m \in MessageIDs :
              DeleteMessageForMe(u, c, m) =>
                  /\ DOMAIN messages' = DOMAIN messages
                  /\ \A i \in DOMAIN messages : i # m => messages'[i] = messages[i]
                  /\ IF messages[m].sender_id = u
                     THEN messages'[m] = [messages[m] EXCEPT !.deleted_by_sender = TRUE]
                     ELSE messages'[m] = [messages[m] EXCEPT !.deleted_by_receiver = TRUE]
                  /\ m \notin SelectedForUser(messages', c, u)
                  /\ m \in SelectedForUser(messages', c, OtherParticipant(c, u))
                         <=> m \in SelectedForUser(messages, c, OtherParticipant(c, u))
                  /\ published' = published
                  /\ UNCHANGED <<chats, chatVisibility, groupMessages>>]_vars

\* user 2 deleted for themselves message 1, which user 1 sent in chat 1: only
\* deleted_by_receiver is set, the message is selected for user 1 and not for
\* user 2, and nothing but its message event was published
C23_Witness ==
    /\ resp.op = "deleteForMe" /\ resp.status = StatusNoContent
    /\ chats[1] = [user1_id |-> 1, user2_id |-> 2]
    /\ messages[1].sender_id = 1 /\ messages[1].chat_id = 1
    /\ messages[1].deleted_by_receiver
    /\ ~messages[1].deleted_by_sender /\ ~messages[1].deleted_for_all
    /\ 1 \in SelectedForUser(messages, 1, 1)
    /\ 1 \notin SelectedForUser(messages, 1, 2)
    /\ \A e \in published : e.type = "message"

\* the registry's entries for room (kind, id): the connection set and the
\* connection infos, empty when the room has none
RoomEntry(h, kind, id) ==
    LET rooms == IF kind = "chat" THEN h.chatRooms ELSE h.groupRooms
        infos == IF kind = "chat" THEN h.chatConnInfo ELSE h.groupConnInfo
    IN  [conns |-> IF id \in DOMAIN rooms THEN rooms[id].keys ELSE {},
         infos |-> IF id \in DOMAIN infos THEN DOMAIN infos[id] ELSE {},
         present |-> <<id \in DOMAIN rooms, id \in DOMAIN infos>>]

\* every frame written to connection c is an event of the room c is in
OnlyOwnRoom(c) ==
    \A k \in DOMAIN sock[c].log :
        sock[c].log[k].kind = sock[c].kind /\ sock[c].log[k].room = sock[c].room

\* C24: a publish to room (kind, id) writes only to connections attached to
\* that room (a connection of a room with another id, or of the room with the
\* same id in the other namespace, gets no frame of it), and a step that
\* changes the registry's entries of a room is the attach or detach of a
\* connection of that room; it changes the entries of no other room, and the
\* steps of a publish other than its detach of a failed connection change no
\* entry at all.
C24_RoomsAreIsolated ==
    /\ [](\A c \in Conns : OnlyOwnRoom(c))
    /\ [][/\ \A kind \in Kinds : \A id \in GroupIDs :
                RoomEntry(hub', kind, id) # RoomEntry(hub, kind, id) =>
                    /\ \E c \in Conns :
                          /\ sock'[c].kind = kind /\ sock'[c].room = id
                          /\ (c \in RoomEntry(hub', kind, id).conns)
                                 # (c \in RoomEntry(hub, kind, id).conns)
                    /\ \A k2 \in Kinds : \A id2 \in GroupIDs :
                          <<k2, id2>> # <<kind, id>> =>
                              RoomEntry(hub', k2, id2) = RoomEntry(hub, k2, id2)
          /\ \A t \in Threads :
                (thr'[t] # thr[t] /\ thr[t].pc # "remove") => hub' = hub]_vars

\* connection 1 is in chat room 1 and connection 2 in group room 1; a message
\* was sent to chat 1 and one to group 2: connection 1 has the frame of the
\* chat message and no other, connection 2 has none
C24_Witness ==
    /\ ~fatal
    /\ sock[1].kind = "chat" /\ sock[1].room = 1 /\ sock[1].local = "open"
    /\ sock[2].kind = "group" /\ sock[2].room = 1 /\ sock[2].local = "open"
    /\ \A t \in Threads : thr[t].pc = "done"
    /\ MessageEvent("group", 2, 1) \in published
    /\ sock[1].log = <<MessageEvent("chat", 1, 1)>>
    /\ sock[2].log = <<>>
    /\ RoomEntry(hub, "chat", 1).conns = {1}
    /\ RoomEntry(hub, "group", 1).conns = {2}

\* the number of frames of event e written to connection c
Frames(c, e) == Cardinality({k \in DOMAIN sock[c].log : sock[c].log[k] = e})

\* the row a send returned is the row the store holds, as it was inserted
ReturnedAsStored(row, table) ==
    /\ row.id \in DOMAIN table
    /\ table[row.id].id = row.id
    /\ table[row.id].sender_id = row.sender_id
    /\ table[row.id].created_at = row.created_at
    /\ ~row.deleted_for_all

\* C25: a send answered Created returns the persisted message, and when the
\* loop of its publish is over every connection that was in the room when the
\* publish read it has one frame of type "message" with the id of that
\* message, unless its write failed or it had left the room before the loop
\* came to it; a delete-for-all answered NoContent likewise writes the
\* "delete_for_all" event with the message id. A publish makes at most one
\* write attempt per connection: the loop never comes to a connection twice,
\* and a frame is appended to a connection only by the one write of a publish
\* that is at this connection.
C25_OneEventPerConnection ==
    /\ [](\A t \in Threads : thr[t].pc = "respond" =>
             /\ thr[t].event.type =
                    (IF thr[t].op \in {"post", "groupPost"} THEN "message"
                     ELSE "delete_for_all")
             /\ thr[t].event.kind = thr[t].kind /\ thr[t].event.room = thr[t].room
             /\ thr[t].op = "post" =>
                    /\ thr[t].body[1].id = thr[t].event.id
                    /\ thr[t].body[1].chat_id = thr[t].room
                    /\ ReturnedAsStored(thr[t].body[1], messages)
             /\ thr[t].op = "groupPost" =>
                    /\ thr[t].body[1].id = thr[t].event.id
                    /\ thr[t].body[1].group_id = thr[t].room
                    /\ ReturnedAsStored(thr[t].body[1], groupMessages)
             /\ \A c \in thr[t].snap :
                    \/ Frames(c, thr[t].event) >= 1
                    \/ c \in thr[t].failed
                    \/ ~Registered(c))
    /\ [](\A c \in Conns : \A e \in published :
             e.type = "message" => Frames(c, e) <= 1)
    /\ [][/\ \A t \in Threads :
                /\ (thr[t].pc = "range" /\ thr'[t].pc = "write") =>
                       /\ thr'[t].cur \notin thr[t].seen
                       /\ thr'[t].seen = thr[t].seen \cup {thr'[t].cur}
                /\ (thr[t].pc = "respond" /\ thr'[t].pc = "done") =>
                       resp' = [op |-> thr[t].op,
                                status |-> (IF thr[t].op \in {"post", "groupPost"}
                                            THEN StatusCreated ELSE StatusNoContent),
                                body |-> thr[t].body]
          /\ \A c \in Conns :
                sock'[c].log # sock[c].log =>
                    \E t \in Threads :
                        /\ thr[t].pc = "write" /\ thr[t].cur = c
                        /\ thr'[t].pc = "range"
                        /\ sock'[c].log = Append(sock[c].log, thr[t].event)]_vars

\* message 1 was sent to chat 1 and then deleted for all, both requests are
\* answered, and both connections of the room have exactly the two frames
C25_Witness ==
    /\ ~fatal
    /\ thr[1] = Done /\ thr[2] = Done
    /\ resp.op = "deleteForAll" /\ resp.status = StatusNoContent
    /\ sock[1].kind = "chat" /\ sock[2].kind = "chat"
    /\ sock[1].log = <<MessageEvent("chat", 1, 1), DeletionEvent("chat", 1, 1)>>
    /\ sock[2].log = sock[1].log
    /\ Registered(1) /\ Registered(2)

\* the step is a send, delete-for-me, delete-for-all or hide request of user u
\* on the existing chat c, or a send or delete-for-all request of u on group g
OutsiderChatRequest(u, c) ==
    /\ GetChat(c) # 0
    /\ ~isChatParticipant(c, u)
    /\ \/ resp'.op = "post" /\ PostChatMessage(u, c, Now)
       \/ resp'.op = "hide" /\ DeleteChatForMe(u, c)
       \/ \E m \in MessageIDs : resp'.op = "deleteForMe" /\ DeleteMessageForMe(u, c, m)
       \/ \E m \in MessageIDs : resp'.op = "deleteForAll" /\ DeleteMessageForAll(u, c, m)

OutsiderGroupRequest(u, g) ==
    /\ ~IsMember(g, u)
    /\ \/ resp'.op = "groupPost" /\ PostGroupMessage(u, g, Now)
       \/ \E m \in MessageIDs :
             resp'.op = "groupDeleteForAll" /\ DeleteGroupMessageForAll(u, g, m)

\* C26: a send, delete-for-me, delete-for-all or hide request by a user who is
\* not a participant of the chat, and a send or delete-for-all request by a
\* user who is not a member of the group, is answered Forbidden, changes no
\* row of messages, group_messages, chats or chat_visibility, hands nothing
\* to the hub and writes to no connection.
C26_OutsiderChangesNothing ==
    [][/\ \A u \in Users, c \in ChatIDs :
             OutsiderChatRequest(u, c) =>
                 /\ resp'.status = StatusForbidden
                 /\ UNCHANGED <<storeVars, published, hubVars>>
       /\ \A u \in Users, g \in GroupIDs :
             OutsiderGroupRequest(u, g) =>
                 /\ resp'.status = StatusForbidden
                 /\ UNCHANGED <<storeVars, published, hubVars>>]_vars

\* user 3, no participant of chat 1, asked to hide it and was answered
\* Forbidden: no chat_visibility row of user 3 exists, the message of the chat
\* has no flag set
C26_Witness ==
    /\ resp.op = "hide" /\ resp.status = StatusForbidden
    /\ chats[1] = [user1_id |-> 1, user2_id |-> 2]
    /\ \A q \in DOMAIN chatVisibility : q[2] # 3 \/ q[1] # 1
    /\ Len(messages) = 1 /\ messages[1].chat_id = 1
    /\ ~messages[1].deleted_by_sender /\ ~messages[1].deleted_by_receiver
    /\ ~messages[1].deleted_for_all

\* the member rows of group id
MembersOf(rows, id) == {row[2] : row \in {r \in rows : r[1] = id}}

\* the step ends the CreateGroup call of goroutine t
CreateGroupReturns(t) ==
    thr[t].pc \in {"txGroup", "txMember"} /\ thr'[t].pc = "idle"

\* C27: in every state the owner of every group is one of its members; a
\* creation that succeeds inserts the owner whether the member list names the
\* owner, names the owner twice or does not name the owner, and no step
\* removes a group or a member row.
C27_OwnerIsMember ==
    /\ [](\A g \in groups : g.owner_id \in MembersOf(members, g.id))
    /\ [][/\ groups \subseteq groups'
          /\ members \subseteq members'
          /\ \A t \in Threads :
                (CreateGroupReturns(t) /\ resp'.status = StatusCreated) =>
                    /\ [id |-> thr[t].room, owner_id |-> thr[t].body[1]] \in groups'
                    /\ thr[t].body[1] \in MembersOf(members', thr[t].room)]_vars

\* user 3 created a group with member_ids [2, 2] and user 1 one with an empty
\* list: the first has the members 2 and 3, the second the member 1
C27_Witness ==
    /\ resp.op = "createGroup" /\ resp.status = StatusCreated
    /\ \E g \in groups :
          g.owner_id = 3 /\ g.id > 2 /\ MembersOf(members, g.id) = {2, 3}
    /\ \E g \in groups :
          g.owner_id = 1 /\ g.id > 2 /\ MembersOf(members, g.id) = {1}

\* C28: a CreateGroup call whose INSERT of the group row, INSERT of a member
\* row or commit fails returns an error (the handler answers 500) and leaves
\* neither the group row nor a member row of the new id behind; a call that
\* succeeds adds the group row and one member row for each distinct id of the
\* owner and the list, all in one step; in every state a group row exists
\* exactly if member rows of its id exist.
C28_CreateGroupIsAtomic ==
    /\ [](\A id \in 1 .. MaxGroupSeq :
             (\E g \in groups : g.id = id) <=> MembersOf(members, id) # {})
    /\ [][/\ \A t \in Threads :
                CreateGroupReturns(t) =>
                    IF resp'.status = StatusCreated
                    THEN /\ resp'.body = <<thr[t].room>>
                         /\ groups' = groups \cup {[id |-> thr[t].room,
                                                     owner_id |-> thr[t].body[1]]}
                         /\ members' = members \cup
                                {<<thr[t].room, u>> :
                                    u \in {thr[t].body[1]} \cup
                                          {thr[t].body[2][k] : k \in DOMAIN thr[t].body[2]}}
                         /\ ~\E g \in groups : g.id = thr[t].room
                         /\ MembersOf(members, thr[t].room) = {}
                    ELSE /\ resp'.status = StatusInternalServerError
                         /\ groups' = groups /\ members' = members
                         /\ ~\E g \in groups' : g.id = thr[t].room
                         /\ MembersOf(members', thr[t].room) = {}
          /\ (groups' # groups \/ members' # members) =>
                \E t \in Threads : CreateGroupReturns(t) /\ resp'.status = StatusCreated]_vars

\* a CreateGroup call got id 3 and failed after it (answered 500): no row of
\* group 3 exists; the next call got id 4 and succeeded with the members 1, 2
C28_Witness ==
    /\ resp.op = "createGroup" /\ resp.status = StatusCreated /\ resp.body = <<4>>
    /\ groupSeq = 4
    /\ ~\E g \in groups : g.id = 3
    /\ MembersOf(members, 3) = {}
    /\ [id |-> 4, owner_id |-> 1] \in groups
    /\ MembersOf(members, 4) = {1, 2}

(* ------------------ C29: one visibility flag per group message --------- *)

\* the messages of a group that no deletion for all has hidden
ShownInGroup(g) ==
    {i \in DOMAIN groupMessages :
        groupMessages[i].group_id = g /\ groupMessages[i].deleted_for_all = FALSE}

\* the ids of the rows of a response
RowIDs(rows) == {rows[k].id : k \in DOMAIN rows}

\* C29: whichever member of a group asks for its messages, the listing holds
\* exactly the messages of that group whose deleted_for_all is FALSE, each
\* once, so a message is listed for every member or for none; and the flag of
\* a message changes only by a delete-for-all request of the message's
\* sender, which sets it.
C29_GroupMessageHasOneFlag ==
    /\ [][\A u \in Users, g \in PostGroupIDs :
            (GetGroupMessages(u, g) /\ HubIdle /\ IsMember(g, u))
                => /\ resp'.status = StatusOK
                   /\ RowIDs(resp'.body) = ShownInGroup(g)
                   /\ Len(resp'.body) = Cardinality(ShownInGroup(g))]_vars
    /\ [][\A m \in DOMAIN groupMessages :
            groupMessages'[m].deleted_for_all # groupMessages[m].deleted_for_all
                => /\ groupMessages'[m].deleted_for_all
                   /\ \E g \in GroupIDs :
                        DeleteGroupMessageForAll(groupMessages[m].sender_id, g, m)]_vars

\* a member other than the sender has listed a group that holds a message
\* deleted for all next to one that is not: the listing has the second only
C29_Witness ==
    /\ resp.op = "groupList" /\ resp.status = StatusOK
    /\ Len(resp.body) = 1
    /\ \E m \in DOMAIN groupMessages :
            /\ groupMessages[m].group_id = 1
            /\ groupMessages[m].deleted_for_all
    /\ \E u \in Users :
            IsMember(1, u) /\ u # resp.body[1].sender_id /\ ShownInGroup(1) = {resp.body[1].id}

(* ------------------- C30: a connection is never reused ----------------- *)

\* the rooms of the registry that hold connection c
RoomsHolding(h, c) ==
    {r \in Kinds \X (ChatIDs \cup GroupIDs) : Attached(h, r[1], r[2], c)}

\* C30: a connection enters a room only in the step that hands it out (before
\* the step it is new, so it was in no room before, and it is never new
\* again), that step enters it into one room only, the room it is in is the
\* one room its session was opened on, and a connection that was handed out
\* and is in no room stays in no room.
C30_ConnectionNeverReused ==
    /\ [](\A c \in Conns :
            /\ sock[c].local = "new" => RoomsHolding(hub, c) = {}
            /\ RoomsHolding(hub, c) \subseteq {<<sock[c].kind, sock[c].room>>})
    /\ [][\A c \in Conns :
            /\ RoomsHolding(hub', c) \ RoomsHolding(hub, c) # {}
                   => /\ sock[c].local = "new" /\ sock'[c].local = "open"
                      /\ Cardinality(RoomsHolding(hub', c)) = 1
            /\ sock[c].local # "new"
                   => /\ sock'[c].local # "new"
                      /\ sock'[c].kind = sock[c].kind /\ sock'[c].room = sock[c].room
                      /\ RoomsHolding(hub', c) \subseteq RoomsHolding(hub, c)]_vars

\* the first connection was in the chat room and has been detached from it and
\* closed; the second, handed out later, is in the second group room
C30_Witness ==
    /\ sock[1].local = "closed" /\ sock[1].kind = "chat" /\ ~sock[1].loop
    /\ RoomsHolding(hub, 1) = {}
    /\ sock[2].local = "open"
    /\ RoomsHolding(hub, 2) = {<<"group", 2>>}

(* --------------- C31: a malformed room id is refused first ------------- *)

\* a path parameter that is a decimal number: an optional sign, then digits only
DecimalNumber(param) ==
    \E sign \in {0, 1} :
        /\ Len(param) > sign
        /\ sign = 1 => param[1] \in {"+", "-"}
        /\ \A k \in (sign + 1) .. Len(param) :
                param[k] \in {"0", "1", "2", "3", "4", "5", "6", "7", "8", "9"}

\* the step is the handling of a REST request of user u whose room parameter is p
RequestWithRoomParam(u, p) ==
    \/ GetChatMessagesPath(u, p)
    \/ PostChatMessagePath(u, p, Now)
    \/ DeleteChatForMePath(u, p)
    \/ GetGroupMessagesPath(u, p)
    \/ PostGroupMessagePath(u, p, Now)
    \/ \E m \in MessageParams :
          \/ DeleteMessageForMePath(u, p, m)
          \/ DeleteMessageForAllPath(u, p, m)
          \/ DeleteGroupMessageForAllPath(u, p, m)

\* C31: a request whose chat or group id is not a number is answered with
\* BadRequest whoever sends it (a participant, a member or neither: no
\* membership answer shows in the status), and leaves the store, the published
\* events and the registry as they were.
C31_MalformedIDIsBadRequest ==
    [][\A u \in PathUsers, p \in ResourceParams :
          (~DecimalNumber(p) /\ RequestWithRoomParam(u, p) /\ HubIdle)
              => /\ resp'.status = StatusBadRequest
                 /\ resp'.body = <<>>
                 /\ UNCHANGED <<storeVars, published, hubVars>>]_vars

\* a send with a malformed chat id has been refused while the chat and a
\* message of it exist
C31_Witness ==
    /\ resp.op = "post" /\ resp.status = StatusBadRequest
    /\ chats # <<>>
    /\ messages # <<>>

(* --------------------- C32: start-chat unhides the chat ---------------- *)

\* the chats row of the unordered pair, 0 when there is none
ChatOfPair(rows, a, b) ==
    IF \E id \in DOMAIN rows : {rows[id].user1_id, rows[id].user2_id} = {a, b}
    THEN CHOOSE id \in DOMAIN rows : {rows[id].user1_id, rows[id].user2_id} = {a, b}
    ELSE 0

\* C32: a start-chat that is answered OK leaves the hidden flag of the chat
\* FALSE for the caller and for the other participant, so the chat is in the
\* chat list of both, whatever they had hidden; a start-chat one of whose two
\* resets fails is answered with a server error, and the chats row of the pair
\* exists all the same.
C32_StartChatUnhides ==
    [][\A r \in StartRequests, o \in StartOutcomes :
          (StartChatStorage(r[1], r[2], r[3], o[1], o[2], o[3], o[4]) /\ NoHub)
              => /\ resp'.status = StatusOK
                     => LET id == resp'.body[1]
                        IN  /\ id = ChatOfPair(chats', r[1], r[2]) /\ id # 0
                            /\ \A u \in {r[1], r[2]} :
                                   /\ <<id, u>> \in DOMAIN chatVisibility'
                                   /\ chatVisibility'[<<id, u>>] = FALSE
                                   /\ id \in ListChatIDs(chats', chatVisibility', u)
                 /\ (/\ r[3] /\ r[1] # r[2] /\ o[1]
                     /\ ChatOfPair(chats, r[1], r[2]) # 0 \/ o[2]
                     /\ ~(o[3] /\ o[4]))
                     => /\ resp'.status = StatusInternalServerError
                        /\ ChatOfPair(chats', r[1], r[2]) # 0]_vars

\* a start-chat of the pair has been answered with a server error while the
\* chats row of users 1 and 2 exists: the flag of user 1 was reset, the reset
\* for user 2, who had hidden the chat, failed, and the chat is still hidden
\* for user 2
C32_Witness ==
    /\ resp.op = "start" /\ resp.status = StatusInternalServerError
    /\ chats # <<>> /\ chats[1] = [user1_id |-> 1, user2_id |-> 2]
    /\ <<1, 1>> \in DOMAIN chatVisibility /\ chatVisibility[<<1, 1>>] = FALSE
    /\ 1 \in ListChatIDs(chats, chatVisibility, 1)
    /\ 1 \notin ListChatIDs(chats, chatVisibility, 2)

(* ------------- C33: a message of another room is not deleted ----------- *)

\* the step handles a delete request of user u that names chat c and message m
ChatDeleteRequest(u, c, m) ==
    (DeleteMessageForMe(u, c, m) \/ DeleteMessageForAll(u, c, m)) /\ HubIdle

\* the step handles a delete request of user u that names group g and message m
GroupDeleteRequest(u, g, m) == DeleteGroupMessageForAll(u, g, m) /\ HubIdle

\* the message exists and is of another chat than c
OfOtherChat(c, m) == m \in DOMAIN messages /\ messages[m].chat_id # c

OfOtherGroup(g, m) == m \in DOMAIN groupMessages /\ groupMessages[m].group_id # g

\* C33 as stated: every delete request that names a message of another chat
\* (group) than the one in the request is answered BadRequest and leaves the
\* message rows unchanged.
C33_CrossRoomIsBadRequest ==
    [][/\ \A u \in Users, c \in ChatIDs, m \in TargetIDs :
            (OfOtherChat(c, m) /\ ChatDeleteRequest(u, c, m))
                => resp'.status = StatusBadRequest /\ UNCHANGED <<messages, groupMessages>>
       /\ \A u \in Users, g \in GroupIDs, m \in TargetIDs :
            (OfOtherGroup(g, m) /\ GroupDeleteRequest(u, g, m))
                => resp'.status = StatusBadRequest /\ UNCHANGED <<messages, groupMessages>>]_vars

\* C33 as amended: a delete request that names a message of another chat
\* (group) than the one in the request leaves every message row and the
\* published events unchanged; it is answered BadRequest when the caller is a
\* participant of the chat (a member of the group) the request names, the
\* sender of the message included, NotFound when the chat does not exist, and
\* Forbidden when the caller is not a participant (member) of it.
C33_CrossRoomIsRefused ==
    [][/\ \A u \in Users, c \in ChatIDs, m \in TargetIDs :
            (OfOtherChat(c, m) /\ ChatDeleteRequest(u, c, m))
                => /\ UNCHANGED <<storeVars, published>>
                   /\ resp'.status =
                         IF GetChat(c) = 0 THEN StatusNotFound
                         ELSE IF ~IsParticipant(c, u) THEN StatusForbidden
                         ELSE StatusBadRequest
       /\ \A u \in Users, g \in GroupIDs, m \in TargetIDs :
            (OfOtherGroup(g, m) /\ GroupDeleteRequest(u, g, m))
                => /\ UNCHANGED <<storeVars, published>>
                   /\ resp'.status =
                         IF ~IsMember(g, u) THEN StatusForbidden ELSE StatusBadRequest]_vars

\* user 1, who sent message 1 in the chat with user 2 and is in the chat with
\* user 3 as well, has asked to delete the message for themselves naming the
\* other chat: BadRequest, no flag of the message set
C33_Witness ==
    /\ resp.op = "deleteForMe" /\ resp.status = StatusBadRequest
    /\ Len(chats) = 2
    /\ messages # <<>> /\ messages[1].sender_id = 1
    /\ ~messages[1].deleted_by_sender /\ ~messages[1].deleted_by_receiver
    /\ ~messages[1].deleted_for_all

(* ----------------- C34: two concurrent starts of one pair -------------- *)

\* C34 as stated: a start-chat that found no chat of its pair, whatever a
\* concurrent start-chat of the same pair does between its SELECT and its
\* INSERT, is answered OK with the id of the one chats row of the pair.
C34_ConcurrentStartsBothSucceed ==
    [][\A t \in Threads :
          (thr[t].pc = "insert" /\ StartChatInsert(t))
              => LET u == thr[t].body[1]
                     f == thr[t].body[2]
                 IN  /\ resp'.status = StatusOK
                     /\ resp'.body = <<ChatOfPair(chats', u, f)>>
                     /\ Cardinality({id \in DOMAIN chats' :
                            {chats'[id].user1_id, chats'[id].user2_id} = {u, f}}) = 1]_vars

(* -------------------------- C35: hiding is per user -------------------- *)

\* C35: a hide of chat c by participant u that is answered NoContent sets the
\* chat_visibility entry of (c, u) and changes no other entry: the chat list
\* of every other user is the same, the chat list of u loses c and nothing
\* else, and the chats, the messages with their flags and the published events
\* are unchanged; and a chat without a chat_visibility entry for one of its
\* participants is in that participant's chat list.
C35_HidingIsPerUser ==
    /\ [](\A c \in DOMAIN chats, u \in Users :
            (isChatParticipant(c, u) /\ <<c, u>> \notin DOMAIN chatVisibility)
                => Listed(chats, chatVisibility, u, c))
    /\ [][\A u \in Users, c \in ChatIDs :
            (DeleteChatForMe(u, c) /\ NoHub /\ resp'.status = StatusNoContent)
                => /\ DOMAIN chatVisibility' = DOMAIN chatVisibility \cup {<<c, u>>}
                   /\ chatVisibility'[<<c, u>>] = TRUE
                   /\ \A e \in DOMAIN chatVisibility :
                          e # <<c, u>> => chatVisibility'[e] = chatVisibility[e]
                   /\ \A q \in Users \ {u} :
                          ListChats(chats', chatVisibility', q)
                              = ListChats(chats, chatVisibility, q)
                   /\ ListChatIDs(chats', chatVisibility', u)
                          = ListChatIDs(chats, chatVisibility, u) \ {c}
                   /\ UNCHANGED <<chats, messages, groupMessages, groupTables, published>>]_vars

\* user 1 has hidden the chat with user 2, which holds a message: their chat
\* with user 3 is still in their list, and the hidden chat is in the list of
\* user 2, who has no chat_visibility entry for it
C35_Witness ==
    /\ resp.op = "hide" /\ resp.status = StatusNoContent
    /\ Len(chats) = 2 /\ chats[1] = [user1_id |-> 1, user2_id |-> 2]
    /\ messages # <<>> /\ messages[1].chat_id = 1
    /\ <<1, 1>> \in DOMAIN chatVisibility /\ chatVisibility[<<1, 1>>]
    /\ <<1, 2>> \notin DOMAIN chatVisibility
    /\ ListChatIDs(chats, chatVisibility, 1) = {2}
    /\ ListChatIDs(chats, chatVisibility, 2) = {1}

(* ------------------ C36: delete-for-all, said again -------------------- *)

\* the range loop of a Broadcast* call
InLoop(t) == thr[t].pc \in {"range", "write", "remove", "wserror"}

\* the step is the first part of a delete-for-all request on goroutine t, and
\* rows / rows2 are the table of the message before and after it
DeleteForAllOutcome(t, m, rows, rows2, event) ==
    IF DOMAIN rows2 = DOMAIN rows /\ m \in DOMAIN rows /\ thr'[t].pc = "broadcast"
    THEN /\ rows2 = [rows EXCEPT ![m].deleted_for_all = TRUE]
         /\ rows[m].deleted_for_all => rows2 = rows
         /\ thr'[t].event = event
         /\ published' = published
    ELSE /\ thr'[t].pc = "done"
         /\ resp'.status # StatusNoContent
         /\ UNCHANGED <<storeVars, published>>

\* C36: a delete-for-all request sets deleted_for_all of its message and
\* changes no other flag, so on a message that is already deleted for all it
\* leaves the table as it was; a request makes one Broadcast* call, handing
\* the delete_for_all event of its message to the room once, exactly when it
\* goes on to answer NoContent, and a request that answers anything else
\* makes none.
C36_DeleteForAllIdempotent ==
    /\ [][\A t \in Threads, u \in RepeatUsers, m \in TargetIDs :
            /\ \A c \in PostChatIDs :
                  DeleteMessageForAllPersist(t, u, c, m)
                      => /\ DeleteForAllOutcome(t, m, messages, messages',
                                                DeletionEvent("chat", c, m))
                         /\ groupMessages' = groupMessages
            /\ \A g \in PostGroupIDs :
                  DeleteGroupMessageForAllPersist(t, u, g, m)
                      => /\ DeleteForAllOutcome(t, m, groupMessages, groupMessages',
                                                DeletionEvent("group", g, m))
                         /\ messages' = messages]_vars
    /\ [][\A t \in Threads :
            /\ (thr'[t].pc = "broadcast" /\ thr[t].pc # "broadcast") => thr[t].pc = "idle"
            /\ (thr[t].pc = "broadcast" /\ thr'[t].pc # "broadcast")
                  => /\ thr'[t].pc = "range"
                     /\ published' = published \cup {thr[t].event}
                     /\ thr[t].event.type = "delete_for_all"
            /\ (/\ ~InLoop(t) /\ thr[t].pc # "respond"
                /\ thr'[t].pc \in {"range", "write", "remove", "wserror", "respond"})
                  => thr[t].pc = "broadcast"
            /\ (thr[t].pc # "done" /\ thr'[t].pc = "done")
                  => /\ resp'.op \in {"deleteForAll", "groupDeleteForAll"}
                     /\ resp'.status = StatusNoContent <=> thr[t].pc = "respond"
                     /\ resp'.status # StatusNoContent <=> thr[t].pc = "idle"]_vars
    /\ [][published' # published
             => \E t \in Threads : thr[t].pc = "broadcast" /\ thr'[t].pc = "range"]_vars

\* the sender has deleted message 1 of the chat for all twice, both requests
\* answered NoContent: the connection in the room was written the event once
\* per request
C36_Witness ==
    /\ sock[1].log = <<DeletionEvent("chat", 1, 1), DeletionEvent("chat", 1, 1)>>
    /\ messages[1].deleted_for_all
    /\ ~messages[1].deleted_by_sender /\ ~messages[1].deleted_by_receiver
    /\ \A t \in Threads : thr[t].pc = "done"
    /\ resp.op = "deleteForAll" /\ resp.status = StatusNoContent

(* ------------------ C37: no wait for the registry lock is forever ------ *)

\* goroutine t is at a statement that takes the registry lock
AtLock(t) == thr[t].pc \in {"broadcast", "remove", "wserror"}

\* C37: a goroutine takes the registry lock only while it holds it in no mode
\* (no nested Lock or RLock) and holds it in no mode while it writes to a
\* connection, and, every goroutine that can step being run,
\* every publish ends up answered or inside conn.WriteMessage, where it waits
\* for the network and not for the lock, or the process has been stopped by the
\* runtime; no goroutine stays at a Lock or RLock for ever, and every read loop
\* whose read failed gets its detach done.
C37_NoWaitForLockForever ==
    /\ [][\A t \in Threads :
            (~HoldsLock(t) /\ (t \in hub'.mu.readers \/ hub'.mu.writer = t))
                => /\ AtLock(t)
                   /\ hub.mu.writer = 0
                   /\ hub'.mu.writer = t => hub.mu.readers = {}]_vars
    /\ [](\A t \in Threads :
            /\ ~(t \in hub.mu.readers /\ hub.mu.writer = t)
            /\ (AtLock(t) \/ thr[t].pc = "write") => ~HoldsLock(t))
    /\ \A t \in Threads : AtLock(t) ~> (~AtLock(t) \/ fatal)
    /\ \A t \in Threads : <>[](thr[t].pc \in {"idle", "done", "write"} \/ fatal)
    /\ \A c \in Conns : (sock[c].loop /\ SocketDown(c)) ~> (~sock[c].loop \/ fatal)
    /\ <>[]((hub.mu.writer = 0 /\ hub.mu.readers = {}) \/ fatal)

\* goroutine 1 waits in RLock at the start of getConnInfo while goroutine 2
\* holds the lock for writing inside RemoveChatClient
C37_Witness ==
    /\ thr[1].pc = "wserror"
    /\ thr[2].pc = "removing" /\ hub.mu.writer = 2
    /\ ~CanRLock(hub)
    /\ ~fatal

\* the read loops running on connections of a kind
LoopsRunning(kind) == {c \in Conns : sock[c].loop /\ sock[c].kind = kind}

\* C38: the gauge of active connections is balanced: the step that attaches a
\* connection and starts its read loop (once per connection) adds one to the
\* gauge of its kind, the step in which its read loop ends takes one off, also
\* when a publish has closed and removed the connection before, and nothing
\* else changes the gauge; the gauge is never negative and is 0 when no read
\* loop is running.
C38_GaugeBalanced ==
    /\ [](\A kind \in Kinds :
            /\ wsActive[kind] >= 0
            /\ (\A c \in Conns : ~sock[c].loop) => wsActive[kind] = 0)
    /\ [][\A c \in Conns :
            /\ (~sock[c].loop /\ sock'[c].loop) =>
                   /\ sock[c].local = "new"
                   /\ wsActive' = [wsActive EXCEPT ![sock'[c].kind] = @ + 1]
            /\ (sock[c].loop /\ ~sock'[c].loop) =>
                   /\ sock'[c].local = "closed"
                   /\ wsActive' = [wsActive EXCEPT ![sock[c].kind] = @ - 1]]_vars
    /\ [][wsActive' # wsActive => \E c \in Conns : sock[c].loop # sock'[c].loop]_vars

\* a publish failed to write to a connection, closed it, removed it from the
\* registry and has gone on; the read loop of the connection has not run yet,
\* and the connection still counts in the gauge until that loop ends
C38_Witness ==
    /\ \E c \in Conns, t \in Threads :
          /\ sock[c].writeFailed /\ c \in thr[t].failed
          /\ thr[t].pc = "respond"
          /\ sock[c].local = "closed" /\ sock[c].loop
          /\ RoomsHolding(hub, c) = {}
          /\ LoopsRunning(sock[c].kind) = {c}
          /\ wsActive[sock[c].kind] = 1
    /\ ~fatal

\* C39: in each namespace the room map and the connection-metadata map have
\* the same room keys and, for each room, the same connections: every
\* registered connection has its metadata, and no metadata is kept for a
\* connection that is not registered.
C39_RegistryMapsConsistent ==
    \A kind \in Kinds :
        /\ DOMAIN Rooms(hub, kind) = DOMAIN Infos(hub, kind)
        /\ \A id \in DOMAIN Rooms(hub, kind) :
               /\ Rooms(hub, kind)[id].keys = DOMAIN Infos(hub, kind)[id]
               /\ \A c \in Rooms(hub, kind)[id].keys :
                      getConnInfo(hub, kind, id, c) # {}

\* two connections were attached to one group; one of them has been detached
\* (its read loop has ended and a write to it has failed) and the other is
\* still registered with its metadata
C39_Witness ==
    \E c, d \in Conns, id \in GroupIDs :
        /\ c # d
        /\ sock[c].kind = "group" /\ sock[c].room = id
        /\ sock[c].writeFailed /\ ~sock[c].loop
        /\ sock[d].kind = "group" /\ sock[d].room = id /\ sock[d].loop
        /\ id \in DOMAIN hub.groupRooms /\ hub.groupRooms[id].keys = {d}
        /\ id \in DOMAIN hub.groupConnInfo /\ DOMAIN hub.groupConnInfo[id] = {d}

====
